---- MODULE Spec2Model ----
(***************************************************************************)
(* Operation pipeline of the SmartClient RPC server: one request (a batch  *)
(* of DS and RPC operations) driven by RPCManager._executeOperations       *)
(* through the phases init, execute and free, with the per-operation       *)
(* transaction lifecycle of DSRequest / RPCRequest and the two resource    *)
(* pools (DataSourcePool, ConnectionPool) underneath.                      *)
(*                                                                         *)
(* Every back-end call (pool borrow, begin, query, commit, rollback) is a  *)
(* suspension point: the call is made by one action and its completion     *)
(* callback is the next action, which chooses the call's outcome.          *)
(***************************************************************************)
EXTENDS Integers, Sequences, FiniteSets

\* Largest batch (number of operations in one transaction envelope).
MaxOps == 2
\* Capacity of the DataSourcePool of the data source (dataSource.pool.max).
DSPoolMax == 2
\* Capacity of the ConnectionPool of the database (db.<name>.pool.max).
ConnPoolMax == 2

\* Operations of concurrently processed requests that use the pools.
MaxClients == 2
\* Acquire/release rounds of each of them.
MaxRounds == 2

STATUS_SUCCESS == 0
STATUS_FAILURE == -1
STATUS_TRANSACTION_FAILED == -10

\* Shapes an operation of the batch can have.
\*   ds          DS operation with data source name and operation type
\*   dsNoType    DS operation with a data source name but no operationType
\*               (operationConfig without operationType)
\*   dsNoName    DS operation whose data source name is not set
\*   rpcPlain    RPC operation without className (no server object)
\*   rpcObj      RPC operation with a server object whose method exists
\*   rpcNoMethod RPC operation naming a method the server object lacks
\*   rpcNoExecute RPC operation naming no method, on a server object without execute
DSKinds == {"ds", "dsNoType", "dsNoName"}
RPCKinds == {"rpcPlain", "rpcObj", "rpcNoMethod", "rpcNoExecute"}
Kinds == DSKinds \cup RPCKinds

VARIABLES
    ops,        \* RPCManager.operations: sequence of operation kinds
    phase,      \* "init" | "execute" | "free" | "done" | "crashed"
    idx,        \* index of the operation the array executor is working on
    pc,         \* position inside the current operation's handler chain
    initResult, \* result array of the init phase
    results,    \* result array of the execute phase
    freeResult, \* result array of the free phase
    responses,  \* `responses` of _executeOperations (built after execute)
    initErr,    \* TRUE when _initRequests reported an error
    delivered,  \* invocations of the coordinator's callback, in order
    trace,      \* calls made and errors reported so far: <<op, event>>
    opDS,       \* DSRequest._dataSource per operation (0 = null)
    dsInst,     \* DataSourcePool: per instance [st, conn]
    connPool,   \* ConnectionPool: per connection "none" | "idle" | "busy"
    serverObject, \* RPCRequest._serverObject per operation (FALSE = null)
    dup,        \* second completion of DataSource.execute, per operation
    \* Operations of concurrently processed requests on the process-wide pools.
    registry,   \* `pools` of DataSourcePool / `_pools` of ConnectionPool: name -> pool
    created,    \* pools created so far, per name
    descriptor, \* what is on disk for the data source id
    reads,      \* times the descriptor file was read
    cl,         \* per client operation: where it is and what it holds
    \* A fetch with advanced criteria on an SQLDataSource.
    criteria,   \* dsRequest.criteria: the criterion tree
    strictReq,  \* strictSQLFiltering as the client sent it
    strictSQLFiltering, \* dsRequest.strictSQLFiltering
    strictCfg,  \* dataSource.strictSQLFiltering of the configuration
    row,        \* value of the column in the row the back end looks at
    other,      \* value of the second column, "other", in that row
    sqlPc,      \* "request" | "compiled" | "answered"
    sqlOut,     \* the WHERE condition executeFetch hands to the back end, and
                \* dsRequest.criteria as the compilation leaves it
    selected,   \* what the back end's WHERE made of the row: "T" | "F" | "U"
    \* One DS operation executing on an SQLDataSource, statement by statement.
    dsRequest,  \* the DS request: operation type, keys, row range
    values,     \* dsRequest.values[pk]
    stmts,      \* statements sent on the connection, in order
    epc,        \* position in the chain of DSRequest.execute
    table,      \* primary keys of the rows of the table
    generated,  \* key the insert reported (result[0])
    dsResponse, \* the DSResponse handed to the callback of execute
    \* The construction of one DSRequest and the text filter of its fetch.
    requestData, \* the element of the operations list the request is made of
    newRequest, \* the DSRequest the constructor made of it
    rqPc,       \* "data" | "constructed" | "filtered"
    matchSQL,   \* what _addSQLSubstringFilter made of the criteria value
    \* The IDA front-end: one transaction envelope on its way to the pipeline.
    envelope,   \* transaction.operations as the client sent it
    operations, \* IDAProcessor.operations: the requests made of the elements
    parseErr,   \* the top-level error handed to _sendResponse ("none": none)
    \* DataSource.toRecords applied to a value, and to its own result.
    fieldNames, \* DataSource.fieldNames: the names of the descriptor's fields
    recordsIn,  \* the argument of toRecords
    recordsOut, \* toRecords(recordsIn)
    recordsAgain, \* toRecords(recordsOut)
    rcPc,       \* "input" | "once" | "twice"
    \* One dataSourceLoader request (ConfigurationLoader.processRequest).
    query,      \* the ids of ?dataSource=..., split at the commas
    loadable,   \* the data source ids DataSourcePool.acquire can load
    realIds,    \* the ids the loader acquires
    ldPc,       \* "request" | "acquire" | "release" | "sent"
    ldIdx,      \* item the array executor is working on
    ldResult,   \* result array of the acquire run
    configs,    \* ids of the create statements of the payload, in order
    loaned,     \* data sources the loader has on loan, per id
    \* SQLDataSource.matchPatternToSQL applied to a pattern.
    pattern,    \* the user pattern, character by character
    translated, \* matchPatternToSQL(pattern, "~")
    mpPc,       \* "input" | "done"
    \* Requests on one JSON data source, each on its own instance.
    file,       \* the records of the backing file
    jr,         \* per request: operation, position, the array read, response
    cap         \* pool.max of the data source's pool

poolVars == <<registry, created, descriptor, reads, cl>>
sqlVars == <<criteria, strictReq, strictSQLFiltering, strictCfg, row, other, sqlPc, sqlOut, selected>>
coordVars == <<ops, phase, idx, pc, initResult, results, freeResult, responses,
               initErr, delivered, trace, opDS, serverObject, dup>>
execVars == <<dsRequest, values, stmts, epc, table, generated, dsResponse>>
baseVars == <<coordVars, dsInst, connPool, poolVars, sqlVars>>
requestVars == <<requestData, newRequest, rqPc, matchSQL>>
parseVars == <<envelope, operations, parseErr>>
recordVars == <<fieldNames, recordsIn, recordsOut, recordsAgain, rcPc>>
loaderVars == <<query, loadable, realIds, ldPc, ldIdx, ldResult, configs, loaned>>
patternVars == <<pattern, translated, mpPc>>
jsonVars == <<file, jr, cap>>
afterLoaderVars == <<patternVars, jsonVars>>
afterRecordVars == <<loaderVars, afterLoaderVars>>
afterParseVars == <<recordVars, afterRecordVars>>
afterRequestVars == <<parseVars, afterParseVars>>
afterExecVars == <<requestVars, afterRequestVars>>
moreVars == <<execVars, afterExecVars>>
vars == <<baseVars, moreVars>>

N == Len(ops)
IsDS(k) == k \in DSKinds

RECURSIVE SeqsUpTo(_, _)
SeqsUpTo(S, n) ==
    IF n = 0 THEN {<<>>}
    ELSE LET shorter == SeqsUpTo(S, n - 1)
         IN shorter \cup {Append(s, x) : s \in {t \in shorter : Len(t) = n - 1}, x \in S}

Batches == {s \in SeqsUpTo(Kinds, MaxOps) : Len(s) >= 1}

----------------------------------------------------------------------------
\* Values flowing through callbacks.

Undefined == [cls |-> "undefined"]
ErrorValue(i) == [cls |-> "Error", op |-> i]
IsError(r) == r.cls = "Error"

\* BaseResponse constructor: an explicit numeric status wins, otherwise the
\* status follows from the data being an Error. `status` is {} when the
\* argument is not a number.
BaseResponse(cls, status, dataIsError, i) ==
    [cls |-> cls,
     status |-> IF status # {} THEN CHOOSE s \in status : TRUE
                ELSE IF dataIsError THEN STATUS_FAILURE ELSE STATUS_SUCCESS,
     op |-> i]

DSResponse(status, dataIsError, i) == BaseResponse("DS", status, dataIsError, i)
RPCResponse(status, dataIsError, i) == BaseResponse("RPC", status, dataIsError, i)

\* Static members read off the response classes. DSResponse (and BaseResponse,
\* which it extends) declare no STATUS_* statics: the reads yield undefined.
DSResponse_STATUS_TRANSACTION_FAILED == {}
Const_STATUS_SUCCESS == {STATUS_SUCCESS}
Const_STATUS_TRANSACTION_FAILED == {STATUS_TRANSACTION_FAILED}

\* BaseResponse `set status`: assert.equal(typeof status, "number").
StatusSetterThrows(status) == status = {}

\* RPCRequest `set serverObject`: any value but null must be an object.
\* loadServerObject without a className calls back with no instance
\* (undefined).
ServerObjectSetterThrows(instance) == instance = "undefined"

----------------------------------------------------------------------------
\* Util.arrayExecutor(array, stopOnError, fn, callback): calls fn on the
\* items one after the other; each completion fills the next slot of the
\* result array with the error or the value; the run ends after the last
\* item, or at the first error when stopOnError is set.
ExecutorRecord(result, r) == Append(result, r)
ExecutorDone(stopOnError, r, index, n) == (stopOnError /\ IsError(r)) \/ index >= n

\* The stopOnError argument the coordinator passes for each phase: true in
\* _initRequests, false in _executeRequests and in _freeResources.
\* Variant: _freeResources stops at the first error as well.
StopOnError_InitAndFree(p) == p \in {"init", "free"}

StopOnError(p) == p = "init"

\* The coordinator goes on (next phase, or its callback) when the executor's
\* run over the operations of phase p has ended.
\* Variant: the execute phase is left after the first result.
PhaseDone_FirstExecuted(p, r, index, n) ==
    p = "execute" \/ ExecutorDone(p = "init", r, index, n)

PhaseDone(p, r, index, n) == ExecutorDone(StopOnError(p), r, index, n)

\* _initRequests: the init phase failed iff the last result is an Error.
\* Variant: looks at the first result instead of the last one.
InitRequestsFailed_First(result) == IsError(result[1])

InitRequestsFailed(result) == IsError(result[Len(result)])

\* _executeOperations: the response for slot i from the result in slot i.
ToResponse(kind, r, i) ==
    IF IsError(r)
    THEN IF IsDS(kind) THEN DSResponse({}, TRUE, r.op) ELSE RPCResponse({}, TRUE, r.op)
    ELSE IF IsDS(kind)
         THEN IF r.cls = "DS" THEN r ELSE DSResponse({}, FALSE, i)
         ELSE IF r.cls = "RPC" THEN r ELSE RPCResponse({}, FALSE, i)

BuildResponses(res) == [i \in 1..Len(res) |-> ToResponse(ops[i], res[i], i)]

\* The coordinator's callback: callback(err) or callback(null, responses).
Callback(err, resp) == [err |-> err, responses |-> resp]

\* The array executor's callback for the current operation, with the phase
\* change and the coordinator code that runs when the phase's run ends.
Complete(r) ==
    /\ pc' = "call"
    /\ CASE phase = "init" ->
              LET res == ExecutorRecord(initResult, r) IN
              /\ initResult' = res
              /\ IF PhaseDone("init", r, idx, N)
                 THEN /\ initErr' = InitRequestsFailed(res)
                      /\ phase' = IF InitRequestsFailed(res) THEN "free" ELSE "execute"
                      /\ idx' = 1
                 ELSE /\ idx' = idx + 1
                      /\ UNCHANGED <<phase, initErr>>
              /\ UNCHANGED <<results, freeResult, responses, delivered>>
         [] phase = "execute" ->
              LET res == ExecutorRecord(results, r) IN
              /\ results' = res
              /\ IF PhaseDone("execute", r, idx, N)
                 THEN /\ responses' = BuildResponses(res)
                      /\ phase' = "free"
                      /\ idx' = 1
                 ELSE /\ idx' = idx + 1
                      /\ UNCHANGED <<phase, responses>>
              /\ UNCHANGED <<initResult, freeResult, initErr, delivered>>
         [] phase = "free" ->
              LET res == ExecutorRecord(freeResult, r) IN
              /\ freeResult' = res
              /\ IF PhaseDone("free", r, idx, N)
                 THEN /\ delivered' = Append(delivered,
                             IF initErr THEN Callback(TRUE, <<>>)
                                        ELSE Callback(FALSE, responses))
                      /\ phase' = "done"
                      /\ UNCHANGED idx
                 ELSE /\ idx' = idx + 1
                      /\ UNCHANGED <<phase, delivered>>
              /\ UNCHANGED <<initResult, results, responses, initErr>>

\* An exception thrown inside a completion callback: nothing catches it on
\* the callback chain, the operation's callback is never invoked and the
\* request makes no further progress.
Throw ==
    /\ phase' = "crashed"
    /\ UNCHANGED <<idx, pc, initResult, results, freeResult, responses, initErr, delivered>>

\* The handler makes a back-end call and suspends until its callback.
Suspend(at) ==
    /\ pc' = at
    /\ UNCHANGED <<phase, idx, initResult, results, freeResult, responses, initErr, delivered>>

\* The handler of the current operation logs the events es, in this order:
\* a call it makes ("commit") or an error reported to it ("commitFailed").
Calls(es) == trace' = trace \o [n \in 1..Len(es) |-> <<idx, es[n]>>]
Call(e) == Calls(<<e>>)

Running(p, at) == phase = p /\ pc = at /\ idx <= N
cur == ops[idx]

\* generic-pool: a borrow is served by a resource that is not on loan (an idle
\* one, or a new one while the pool is below its maximum); otherwise it waits.
\* The pool has one slot per resource it may hold (pool.max).
FreeDS == {k \in DOMAIN dsInst : dsInst[k].st # "busy"}
FreeConn == {c \in DOMAIN connPool : connPool[c] # "busy"}
Lowest(S) == CHOOSE x \in S : \A y \in S : x <= y
\* Pooled instances that are idle, and room for instances not yet created.
IdleDS == {k \in DOMAIN dsInst : dsInst[k].st = "idle"}
NewDS == {k \in DOMAIN dsInst : dsInst[k].st = "none"}

\* No fetch is being compiled.
NoFetch ==
    /\ criteria = <<>> /\ strictReq = "undefined" /\ strictCfg = "undefined"
    /\ strictSQLFiltering = "undefined"
    /\ row = 0 /\ other = 0 /\ sqlPc = "idle" /\ sqlOut = <<>> /\ selected = "U"

\* No DS operation is executing statement by statement.
NoExec ==
    /\ dsRequest = <<>> /\ values = 0 /\ stmts = <<>> /\ epc = "idle"
    /\ table = {} /\ generated = 0 /\ dsResponse = <<>>

\* No DSRequest is under construction.
NoRequest ==
    /\ requestData = <<>> /\ newRequest = <<>> /\ rqPc = "idle" /\ matchSQL = <<>>

\* No envelope is being parsed.
NoParse == envelope = <<>> /\ operations = <<>> /\ parseErr = "none"

\* toRecords is not being applied.
NoRecords ==
    /\ fieldNames = <<>> /\ recordsIn = <<>> /\ recordsOut = <<>>
    /\ recordsAgain = <<>> /\ rcPc = "idle"

\* No dataSourceLoader request is being processed.
NoLoader ==
    /\ query = <<>> /\ loadable = {} /\ realIds = <<>> /\ ldPc = "idle"
    /\ ldIdx = 0 /\ ldResult = <<>> /\ configs = <<>> /\ loaned = <<>>

\* No pattern is being translated.
NoPattern == pattern = <<>> /\ translated = <<>> /\ mpPc = "idle"

\* No request on a JSON data source is being processed.
NoJson == file = <<>> /\ jr = <<>> /\ cap = 0

NoLater == NoPattern /\ NoJson

\* Nothing but the specification at hand is running.
NoMore == NoExec /\ NoRequest /\ NoParse /\ NoRecords /\ NoLoader /\ NoLater

Clients == 1..MaxClients
\* The two registries: `pools` of DataSourcePool, keyed by data source id,
\* and `_pools` of ConnectionPool, keyed by dbName (one name in each).
PoolNames == {"ds", "db"}
NoClient == [pc |-> "start", ds |-> 0, conn |-> 0, pool |-> 0,
             acquires |-> 0, callbacks |-> 0, round |-> 0]

\* `let pool = pools[name]; if (!pool) { create and register }`.
\* Variant: the registry is not consulted.
PoolRegistered_Never(reg, name) == FALSE

PoolRegistered(reg, name) == reg[name] # 0

\* What DataSourceFactory finds for the id:
\*   xml, js        a well-formed descriptor file of that kind
\*   noConfig       the configuration has no dataSource section
\*   missing        neither <id>.ds.xml nor <id>.ds.js exists
\*   xmlUnreadable  <id>.ds.xml cannot be read or parsed
\*   jsUnreadable   <id>.ds.js cannot be read
\*   jsUnparsable   <id>.ds.js is not JSON
\*   idMismatch     the descriptor's ID is not the requested id
\*   unknownType    the descriptor's serverType is none of sql, json, generic
DescriptorKinds == {"xml", "js", "noConfig", "missing", "xmlUnreadable",
                    "jsUnreadable", "jsUnparsable", "idMismatch", "unknownType"}
FileExists(d) == d \notin {"missing", "noConfig"}

\* DataSourceFactory.create / _instantiateDataSource: the promise resolves
\* with the instance, is rejected with an Exception, or - for a .ds.js file
\* that JSON.parse refuses - the catch block calls `callback`, a name that is
\* not defined in create: a ReferenceError inside the fs.readFile callback,
\* and the promise is never settled.
CreateOutcome(d) ==
    CASE d \in {"xml", "js"} -> "resolve"
      [] d = "jsUnparsable" -> "throw"
      [] OTHER -> "reject"

----------------------------------------------------------------------------
\* DS operation, init phase.

\* DSRequest.init
DSRequest_init ==
    /\ Running("init", "call") /\ IsDS(cur)
    /\ IF cur = "dsNoName"
       THEN Complete(ErrorValue(idx)) /\ Call("op.init")
       ELSE Calls(<<"op.init", "acquire">>) /\ Suspend("acquire")
    /\ UNCHANGED <<poolVars, sqlVars, moreVars, ops, opDS, dsInst, connPool, serverObject, dup>>

\* DataSourcePool.acquire completes; on success DataSource.init is called.
\* The borrow is answered, with an instance or with the error of making
\* one, once the pool has an instance that is not on loan.
DataSourcePool_acquire_cb ==
    /\ Running("init", "acquire")
    /\ FreeDS # {}
    /\ \/ /\ Complete(ErrorValue(idx))
          /\ Call("acquireFailed")
          /\ UNCHANGED <<opDS, dsInst>>
       \/ /\ LET k == Lowest(FreeDS) IN
             /\ dsInst' = [dsInst EXCEPT ![k] = [st |-> "busy", conn |-> dsInst[k].conn]]
             /\ opDS' = [opDS EXCEPT ![idx] = k]
          /\ Call("init")
          /\ Suspend("dsInit")
    /\ UNCHANGED <<poolVars, sqlVars, moreVars, ops, connPool, serverObject, dup>>

\* SQLDataSource.init: ConnectionPool.acquire completes, with a connection
\* or with the error of making one, once the pool has a connection that is
\* not on loan.
SQLDataSource_init_cb ==
    /\ Running("init", "dsInit")
    /\ FreeConn # {}
    /\ \/ /\ Complete(ErrorValue(idx))
          /\ Call("initFailed")
          /\ UNCHANGED <<dsInst, connPool>>
       \/ /\ LET c == Lowest(FreeConn) IN
             /\ connPool' = [connPool EXCEPT ![c] = "busy"]
             /\ dsInst' = [dsInst EXCEPT ![opDS[idx]].conn = c]
          /\ Call("connAcquire")
          /\ Complete(Undefined)
    /\ UNCHANGED <<poolVars, sqlVars, moreVars, ops, opDS, serverObject, dup>>

----------------------------------------------------------------------------
\* DS operation, execute phase.

\* DSRequest.execute: calls startTransaction.
DSRequest_execute ==
    /\ Running("execute", "call") /\ IsDS(cur)
    /\ IF opDS[idx] = 0
       THEN Complete(DSResponse({}, TRUE, idx)) /\ Call("op.execute")
       ELSE Calls(<<"op.execute", "startTx">>) /\ Suspend("startTx")
    /\ UNCHANGED <<poolVars, sqlVars, moreVars, ops, opDS, dsInst, connPool, serverObject, dup>>

\* Variant: a failed startTransaction hands the plain error to the executor.
DSRequest_startTransaction_cb_PlainError ==
    /\ Running("execute", "startTx") /\ IsDS(cur)
    /\ \/ Complete(ErrorValue(idx)) /\ Call("startTxFailed")
       \/ Call("execute") /\ Suspend("exec")
    /\ UNCHANGED <<poolVars, sqlVars, moreVars, ops, opDS, dsInst, connPool, serverObject, dup>>

\* Callback of startTransaction in DSRequest.execute.
DSRequest_startTransaction_cb ==
    /\ Running("execute", "startTx") /\ IsDS(cur)
    /\ \/ Complete(DSResponse({}, TRUE, idx)) /\ Call("startTxFailed")
       \/ Call("execute") /\ Suspend("exec")
    /\ UNCHANGED <<poolVars, sqlVars, moreVars, ops, opDS, dsInst, connPool, serverObject, dup>>

\* Variant: _executeFinish commits although DataSource.execute reported an error.
DataSource_execute_cb_Commits ==
    /\ Running("execute", "exec") /\ IsDS(cur)
    /\ \/ Calls(<<"executeFailed", "commit">>) /\ Suspend("commit")
       \/ /\ cur # "dsNoType"
          /\ Call("commit") /\ Suspend("commit")
    /\ UNCHANGED <<poolVars, sqlVars, moreVars, ops, opDS, dsInst, connPool, serverObject, dup>>

\* DataSource.execute invokes its callback, which is DSRequest._executeFinish:
\* with an error it calls rollback, otherwise commit. Without an operation
\* type DataSource.execute reports "not specified" and then falls through to
\* the final else and reports "not supported" as well: a second callback.
DataSource_execute_cb ==
    /\ Running("execute", "exec") /\ IsDS(cur)
    /\ \/ /\ Calls(<<"executeFailed", "rollback">>) /\ Suspend("rollback")
          /\ dup' = IF cur = "dsNoType" THEN [dup EXCEPT ![idx] = "pending"] ELSE dup
       \/ /\ cur # "dsNoType"
          /\ Call("commit") /\ Suspend("commit")
          /\ UNCHANGED dup
    /\ UNCHANGED <<poolVars, sqlVars, moreVars, ops, opDS, dsInst, connPool, serverObject>>

\* The second callback of DataSource.execute: _executeFinish runs again and
\* calls rollback again. It runs when the first callback returns: at once
\* when rollback suspends, or after all that the first callback ran on.
\* Its own completion reaches the array executor for an item already done.
DataSource_execute_cb2(i) ==
    /\ phase \in {"execute", "free"}
    /\ dup[i] = "pending"
    /\ dup' = [dup EXCEPT ![i] = "done"]
    /\ trace' = Append(trace, <<i, "rollback">>)
    /\ UNCHANGED <<poolVars, sqlVars, moreVars, ops, phase, idx, pc, initResult, results, freeResult, responses,
                   initErr, delivered, opDS, dsInst, connPool, serverObject>>

\* Callback of commit in DSRequest._executeFinish.
DSRequest_commit_cb ==
    /\ Running("execute", "commit") /\ IsDS(cur)
    /\ \/ Complete(DSResponse(Const_STATUS_SUCCESS, FALSE, idx)) /\ UNCHANGED trace
       \/ IF StatusSetterThrows(DSResponse_STATUS_TRANSACTION_FAILED)
          THEN Throw /\ Call("commitFailed")
          ELSE Calls(<<"commitFailed", "rollback">>) /\ Suspend("rollbackCommit")
    /\ UNCHANGED <<poolVars, sqlVars, moreVars, ops, opDS, dsInst, connPool, serverObject, dup>>

\* Callback of rollback in DSRequest._executeFinish (a rollback failure is
\* only logged).
DSRequest_rollback_cb ==
    /\ phase = "execute" /\ pc \in {"rollback", "rollbackCommit"} /\ IsDS(cur)
    /\ IF pc = "rollback"
       THEN Complete(DSResponse({}, TRUE, idx))
       ELSE Complete(DSResponse(DSResponse_STATUS_TRANSACTION_FAILED, FALSE, idx))
    /\ UNCHANGED <<poolVars, sqlVars, moreVars, ops, trace, opDS, dsInst, connPool, serverObject, dup>>

----------------------------------------------------------------------------
\* DS operation, free phase.

\* DSRequest.freeResources -> DataSourcePool.release -> dataSource.freeResources
DSRequest_freeResources ==
    /\ Running("free", "call") /\ IsDS(cur)
    /\ IF opDS[idx] = 0
       THEN Complete(Undefined) /\ Call("op.freeResources")
       ELSE /\ Calls(<<"op.freeResources", "release">>)
            /\ Suspend(IF dsInst[opDS[idx]].conn # 0 THEN "connRelease" ELSE "poolRelease")
    /\ UNCHANGED <<poolVars, sqlVars, moreVars, ops, opDS, dsInst, connPool, serverObject, dup>>

\* SQLDataSource.freeResources: ConnectionPool.release completes, the data
\* source forgets the connection and DataSourcePool.release goes on to
\* pool.release(dataSource).
SQLDataSource_freeResources_cb ==
    /\ Running("free", "connRelease")
    /\ LET k == opDS[idx] IN
       /\ connPool' = [connPool EXCEPT ![dsInst[k].conn] = "idle"]
       /\ dsInst' = [dsInst EXCEPT ![k].conn = 0]
    /\ Call("connRelease")
    /\ Suspend("poolRelease")
    /\ UNCHANGED <<poolVars, sqlVars, moreVars, ops, opDS, serverObject, dup>>

\* DataSourcePool.release: pool.release(dataSource) completes.
DataSourcePool_release_cb ==
    /\ Running("free", "poolRelease")
    /\ dsInst' = [dsInst EXCEPT ![opDS[idx]].st = "idle"]
    /\ Complete(Undefined)
    /\ UNCHANGED <<poolVars, sqlVars, moreVars, ops, trace, opDS, connPool, serverObject, dup>>

----------------------------------------------------------------------------
\* RPC operation.

\* RPCRequest.init: loadServerObject (synchronous) and the assignment of the
\* instance; then the server object's init, when it has one.
RPCRequest_init ==
    /\ Running("init", "call") /\ ~IsDS(cur)
    /\ \/ /\ cur = "rpcPlain"
          /\ IF ServerObjectSetterThrows("undefined")
             THEN Throw
             ELSE Complete(Undefined)
          /\ Call("op.init")
          /\ UNCHANGED serverObject
       \/ /\ cur # "rpcPlain"
          /\ Complete(ErrorValue(idx))
          /\ Calls(<<"op.init", "loadFailed">>)
          /\ UNCHANGED serverObject
       \/ /\ cur # "rpcPlain"
          /\ serverObject' = [serverObject EXCEPT ![idx] = TRUE]
          /\ Calls(<<"op.init", "init">>)
          /\ Suspend("rpcInit")
    /\ UNCHANGED <<poolVars, sqlVars, moreVars, ops, opDS, dsInst, connPool, dup>>

\* The server object's init completes.
ServerObject_init_cb ==
    /\ Running("init", "rpcInit")
    /\ \/ Complete(ErrorValue(idx)) /\ Call("initFailed")
       \/ Complete(Undefined) /\ UNCHANGED trace
    /\ UNCHANGED <<poolVars, sqlVars, moreVars, ops, opDS, dsInst, connPool, serverObject, dup>>

\* RPCRequest.execute: calls startTransaction when there is a server object,
\* otherwise answers with the request data.
RPCRequest_execute ==
    /\ Running("execute", "call") /\ ~IsDS(cur)
    /\ IF serverObject[idx]
       THEN Calls(<<"op.execute", "startTx">>) /\ Suspend("startTx")
       ELSE Complete(RPCResponse(Const_STATUS_SUCCESS, FALSE, idx)) /\ Call("op.execute")
    /\ UNCHANGED <<poolVars, sqlVars, moreVars, ops, opDS, dsInst, connPool, serverObject, dup>>

\* Callback of startTransaction in RPCRequest.execute: dispatch on the method.
RPCRequest_startTransaction_cb ==
    /\ Running("execute", "startTx") /\ ~IsDS(cur)
    /\ \/ Complete(RPCResponse({}, TRUE, idx)) /\ Call("startTxFailed")
       \/ /\ cur = "rpcNoMethod"
          /\ Complete(ErrorValue(idx)) /\ UNCHANGED trace
       \/ /\ cur = "rpcNoExecute"
          /\ Complete(RPCResponse(Const_STATUS_SUCCESS, FALSE, idx)) /\ UNCHANGED trace
       \/ /\ cur \notin {"rpcNoMethod", "rpcNoExecute"}
          /\ Call("execute") /\ Suspend("exec")
    /\ UNCHANGED <<poolVars, sqlVars, moreVars, ops, opDS, dsInst, connPool, serverObject, dup>>

\* The server object's method completes: RPCRequest._executeFinish.
ServerObject_method_cb ==
    /\ Running("execute", "exec") /\ ~IsDS(cur)
    /\ \/ Calls(<<"executeFailed", "rollback">>) /\ Suspend("rollback")
       \/ Call("commit") /\ Suspend("commit")
    /\ UNCHANGED <<poolVars, sqlVars, moreVars, ops, opDS, dsInst, connPool, serverObject, dup>>

\* Variant: a failed commit answers with the transaction-failed status at once.
RPCRequest_commit_cb_NoRollback ==
    /\ Running("execute", "commit") /\ ~IsDS(cur)
    /\ \/ Complete(RPCResponse(Const_STATUS_SUCCESS, FALSE, idx)) /\ UNCHANGED trace
       \/ /\ Complete(RPCResponse(Const_STATUS_TRANSACTION_FAILED, FALSE, idx))
          /\ Call("commitFailed")
    /\ UNCHANGED <<poolVars, sqlVars, moreVars, ops, opDS, dsInst, connPool, serverObject, dup>>

\* Callback of commit in RPCRequest._executeFinish.
RPCRequest_commit_cb ==
    /\ Running("execute", "commit") /\ ~IsDS(cur)
    /\ \/ Complete(RPCResponse(Const_STATUS_SUCCESS, FALSE, idx)) /\ UNCHANGED trace
       \/ IF StatusSetterThrows(Const_STATUS_TRANSACTION_FAILED)
          THEN Throw /\ Call("commitFailed")
          ELSE Calls(<<"commitFailed", "rollback">>) /\ Suspend("rollbackCommit")
    /\ UNCHANGED <<poolVars, sqlVars, moreVars, ops, opDS, dsInst, connPool, serverObject, dup>>

\* Callback of rollback in RPCRequest._executeFinish.
RPCRequest_rollback_cb ==
    /\ phase = "execute" /\ pc \in {"rollback", "rollbackCommit"} /\ ~IsDS(cur)
    /\ IF pc = "rollback"
       THEN Complete(RPCResponse({}, TRUE, idx))
       ELSE Complete(RPCResponse(Const_STATUS_TRANSACTION_FAILED, FALSE, idx))
    /\ UNCHANGED <<poolVars, sqlVars, moreVars, ops, trace, opDS, dsInst, connPool, serverObject, dup>>

\* RPCRequest.freeResources
RPCRequest_freeResources ==
    /\ Running("free", "call") /\ ~IsDS(cur)
    /\ IF serverObject[idx]
       THEN Calls(<<"op.freeResources", "release">>) /\ Suspend("rpcFree")
       ELSE Complete(Undefined) /\ Call("op.freeResources")
    /\ UNCHANGED <<poolVars, sqlVars, moreVars, ops, opDS, dsInst, connPool, serverObject, dup>>

\* The server object's freeResources completes; _freeResources logs an error
\* and passes it on to the array executor.
ServerObject_freeResources_cb ==
    /\ Running("free", "rpcFree")
    /\ \/ Complete(ErrorValue(idx)) /\ Call("releaseFailed")
       \/ Complete(Undefined) /\ UNCHANGED trace
    /\ UNCHANGED <<poolVars, sqlVars, moreVars, ops, opDS, dsInst, connPool, serverObject, dup>>

----------------------------------------------------------------------------
Init ==
    /\ ops \in Batches
    /\ phase = "init"
    /\ idx = 1
    /\ pc = "call"
    /\ initResult = <<>>
    /\ results = <<>>
    /\ freeResult = <<>>
    /\ responses = <<>>
    /\ initErr = FALSE
    /\ delivered = <<>>
    /\ trace = <<>>
    /\ opDS = [i \in 1..MaxOps |-> 0]
    /\ dsInst = [k \in 1..DSPoolMax |-> [st |-> "none", conn |-> 0]]
    /\ connPool = [c \in 1..ConnPoolMax |-> "none"]
    /\ serverObject = [i \in 1..MaxOps |-> FALSE]
    /\ dup = [i \in 1..MaxOps |-> "none"]
    /\ registry = [n \in PoolNames |-> 0]
    /\ created = [n \in PoolNames |-> 0]
    /\ descriptor = "xml"
    /\ reads = 0
    /\ cl = [c \in Clients |-> NoClient]
    /\ NoFetch
    /\ NoMore

Next ==
    \/ DSRequest_init
    \/ DataSourcePool_acquire_cb
    \/ SQLDataSource_init_cb
    \/ DSRequest_execute
    \/ DSRequest_startTransaction_cb
    \/ DataSource_execute_cb
    \/ \E i \in 1..MaxOps : DataSource_execute_cb2(i)
    \/ DSRequest_commit_cb
    \/ DSRequest_rollback_cb
    \/ DSRequest_freeResources
    \/ SQLDataSource_freeResources_cb
    \/ DataSourcePool_release_cb
    \/ RPCRequest_init
    \/ ServerObject_init_cb
    \/ RPCRequest_execute
    \/ RPCRequest_startTransaction_cb
    \/ ServerObject_method_cb
    \/ RPCRequest_commit_cb
    \/ RPCRequest_rollback_cb
    \/ RPCRequest_freeResources
    \/ ServerObject_freeResources_cb

Spec == Init /\ [][Next]_vars

----------------------------------------------------------------------------
\* The process-wide pools under operations of concurrently processed
\* requests. A client is one DS operation: it acquires a DataSource from
\* DataSourcePool, the SQLDataSource acquires its connection in init, and
\* DataSourcePool.release gives both back. Every pool borrow or return and
\* every file read is a suspension point at which other clients run.

\* DataSourcePool.acquire: look the pool up in the registry; create and
\* register it when there is none (synchronously: no other code runs in
\* between); then pool.acquire().
DataSourcePool_acquire(c) ==
    /\ cl[c].pc = "start" /\ cl[c].round < MaxRounds
    /\ IF PoolRegistered(registry, "ds")
       THEN /\ cl' = [cl EXCEPT ![c].pc = "borrow", ![c].acquires = @ + 1,
                                ![c].pool = registry["ds"]]
            /\ UNCHANGED <<registry, created>>
       ELSE IF descriptor = "noConfig"
       THEN \* new DataSourceFactory throws: callback(err)
            /\ cl' = [cl EXCEPT ![c].acquires = @ + 1, ![c].callbacks = @ + 1,
                                ![c].round = @ + 1]
            /\ UNCHANGED <<registry, created>>
       ELSE /\ created' = [created EXCEPT !["ds"] = @ + 1]
            /\ registry' = [registry EXCEPT !["ds"] = created["ds"] + 1]
            /\ cl' = [cl EXCEPT ![c].pc = "borrow", ![c].acquires = @ + 1,
                                ![c].pool = created["ds"] + 1]
    /\ UNCHANGED <<coordVars, sqlVars, moreVars, dsInst, connPool, descriptor, reads>>

\* pool.acquire() resolves with a pooled instance that is not on loan: the
\* then-branch of DataSourcePool.acquire calls callback(null, dataSource).
DataSourcePool_acquire_then(c) ==
    /\ cl[c].pc = "borrow"
    /\ IdleDS # {}
    /\ LET k == Lowest(IdleDS) IN
       /\ dsInst' = [dsInst EXCEPT ![k].st = "busy"]
       /\ cl' = [cl EXCEPT ![c].pc = "held", ![c].ds = k, ![c].callbacks = @ + 1]
    /\ UNCHANGED <<coordVars, sqlVars, moreVars, connPool, registry, created, descriptor, reads>>

\* The pool has no idle instance and is below its maximum: it asks the
\* factory for a new one. DataSourceFactory.create looks for the descriptor
\* file and starts reading it.
DataSourceFactory_create(c) ==
    /\ cl[c].pc = "borrow"
    /\ IdleDS = {} /\ NewDS # {}
    /\ LET k == Lowest(NewDS) IN
       /\ dsInst' = [dsInst EXCEPT ![k].st = "busy"]
       /\ cl' = [cl EXCEPT ![c].pc = "creating", ![c].ds = k]
    /\ reads' = IF FileExists(descriptor) THEN reads + 1 ELSE reads
    /\ UNCHANGED <<coordVars, sqlVars, moreVars, connPool, registry, created, descriptor>>

\* DataSourceFactory.create: the file read (or the failed look-up) completes.
DataSourceFactory_create_cb(c) ==
    /\ cl[c].pc = "creating"
    /\ CASE CreateOutcome(descriptor) = "resolve" ->
              /\ cl' = [cl EXCEPT ![c].pc = "held", ![c].callbacks = @ + 1]
              /\ UNCHANGED dsInst
         [] CreateOutcome(descriptor) = "reject" ->
              /\ cl' = [cl EXCEPT ![c].pc = "start", ![c].ds = 0,
                                  ![c].callbacks = @ + 1, ![c].round = @ + 1]
              /\ dsInst' = [dsInst EXCEPT ![cl[c].ds].st = "none"]
         [] CreateOutcome(descriptor) = "throw" ->
              /\ cl' = [cl EXCEPT ![c].pc = "thrown"]
              /\ UNCHANGED dsInst
    /\ UNCHANGED <<coordVars, sqlVars, moreVars, connPool, registry, created, descriptor, reads>>

\* SQLDataSource.init -> ConnectionPool.acquire: registry look-up, creation
\* of the connection pool when there is none, then pool.acquire().
ConnectionPool_acquire(c) ==
    /\ cl[c].pc = "held"
    /\ IF PoolRegistered(registry, "db")
       THEN UNCHANGED <<registry, created>>
       ELSE /\ created' = [created EXCEPT !["db"] = @ + 1]
            /\ registry' = [registry EXCEPT !["db"] = created["db"] + 1]
    /\ cl' = [cl EXCEPT ![c].pc = "connBorrow"]
    /\ UNCHANGED <<coordVars, sqlVars, moreVars, dsInst, connPool, descriptor, reads>>

\* ConnectionPool.acquire: pool.acquire() resolves; SQLDataSource.init
\* stores the connection.
ConnectionPool_acquire_then(c) ==
    /\ cl[c].pc = "connBorrow"
    /\ FreeConn # {}
    /\ LET n == Lowest(FreeConn) IN
       /\ connPool' = [connPool EXCEPT ![n] = "busy"]
       /\ dsInst' = [dsInst EXCEPT ![cl[c].ds].conn = n]
    /\ cl' = [cl EXCEPT ![c].pc = "ready"]
    /\ UNCHANGED <<coordVars, sqlVars, moreVars, registry, created, descriptor, reads>>

\* DataSourcePool.release: dataSource.freeResources, which calls
\* ConnectionPool.release.
DataSourcePool_release(c) ==
    /\ cl[c].pc = "ready"
    /\ cl' = [cl EXCEPT ![c].pc = "connReturn", ![c].conn = dsInst[cl[c].ds].conn]
    /\ UNCHANGED <<coordVars, sqlVars, moreVars, dsInst, connPool, registry, created, descriptor, reads>>

\* Variant: SQLDataSource.freeResources keeps its reference to the
\* connection it has given back.
SQLDataSource_freeResources_then_KeepsConnection(c) ==
    /\ cl[c].pc = "connReturn"
    /\ connPool' = [connPool EXCEPT ![cl[c].conn] = "idle"]
    /\ cl' = [cl EXCEPT ![c].pc = "dsReturn", ![c].conn = 0]
    /\ UNCHANGED <<coordVars, sqlVars, moreVars, dsInst, registry, created, descriptor, reads>>

\* ConnectionPool.release resolves: SQLDataSource.freeResources sets its
\* connection to null, DataSourcePool.release calls pool.release(dataSource).
SQLDataSource_freeResources_then(c) ==
    /\ cl[c].pc = "connReturn"
    /\ connPool' = [connPool EXCEPT ![cl[c].conn] = "idle"]
    /\ dsInst' = [dsInst EXCEPT ![cl[c].ds].conn = 0]
    /\ cl' = [cl EXCEPT ![c].pc = "dsReturn", ![c].conn = 0]
    /\ UNCHANGED <<coordVars, sqlVars, moreVars, registry, created, descriptor, reads>>

\* pool.release(dataSource) resolves: the instance is idle in the pool and
\* the callback of DataSourcePool.release is called.
DataSourcePool_release_then(c) ==
    /\ cl[c].pc = "dsReturn"
    /\ dsInst' = [dsInst EXCEPT ![cl[c].ds].st = "idle"]
    /\ cl' = [cl EXCEPT ![c].pc = "start", ![c].ds = 0, ![c].round = @ + 1]
    /\ UNCHANGED <<coordVars, sqlVars, moreVars, connPool, registry, created, descriptor, reads>>

PoolInit ==
    /\ descriptor \in DescriptorKinds
    /\ registry = [n \in PoolNames |-> 0]
    /\ created = [n \in PoolNames |-> 0]
    /\ reads = 0
    /\ cl = [c \in Clients |-> NoClient]
    /\ dsInst = [k \in 1..DSPoolMax |-> [st |-> "none", conn |-> 0]]
    /\ connPool = [n \in 1..ConnPoolMax |-> "none"]
    /\ ops = <<>> /\ phase = "idle" /\ idx = 1 /\ pc = "call"
    /\ initResult = <<>> /\ results = <<>> /\ freeResult = <<>>
    /\ responses = <<>> /\ initErr = FALSE /\ delivered = <<>> /\ trace = <<>>
    /\ opDS = [i \in 1..MaxOps |-> 0]
    /\ serverObject = [i \in 1..MaxOps |-> FALSE]
    /\ dup = [i \in 1..MaxOps |-> "none"]
    /\ NoFetch
    /\ NoMore

PoolNext ==
    \E c \in Clients :
        \/ DataSourcePool_acquire(c)
        \/ DataSourcePool_acquire_then(c)
        \/ DataSourceFactory_create(c)
        \/ DataSourceFactory_create_cb(c)
        \/ ConnectionPool_acquire(c)
        \/ ConnectionPool_acquire_then(c)
        \/ DataSourcePool_release(c)
        \/ SQLDataSource_freeResources_then(c)
        \/ DataSourcePool_release_then(c)

PoolSpec == PoolInit /\ [][PoolNext]_vars

----------------------------------------------------------------------------
\* Properties.

\* Number of times event e was logged for operation i.
Count(i, e) == Cardinality({n \in DOMAIN trace : trace[n] = <<i, e>>})

\* The request has come to rest: the coordinator invoked its callback, or an
\* exception ended the callback chain.
Halted == phase \in {"done", "crashed"}

\* Every operation's init completed without an error / some init reported one.
InitSucceeded == Len(initResult) = N /\ \A n \in 1..N : ~IsError(initResult[n])
InitFailed == \E n \in DOMAIN initResult : IsError(initResult[n])

DSOps == {i \in 1..N : IsDS(ops[i])}
ResponseClass(k) == IF IsDS(k) THEN "DS" ELSE "RPC"

\* The DataSource life-cycle calls of operation i, in the order they were made.
Stage(e) ==
    CASE e = "acquire" -> 1 [] e = "init" -> 2 [] e = "startTx" -> 3
      [] e = "execute" -> 4 [] e = "commit" -> 5 [] e = "rollback" -> 6
      [] e = "release" -> 7 [] OTHER -> 0
IsLifecycle(i, ev) == ev[1] = i /\ Stage(ev[2]) # 0
Lifecycle(i) == SelectSeq(trace, LAMBDA ev : IsLifecycle(i, ev))

\* C1: once a batch whose init phase succeeded has come to rest, the
\* coordinator has delivered exactly N responses, and the i-th one is the
\* result of the i-th operation, of the class of that operation's kind.
C1_Claim ==
    (InitSucceeded /\ Halted) =>
        /\ Len(delivered) = 1
        /\ ~delivered[1].err
        /\ Len(delivered[1].responses) = N
        /\ \A i \in 1..N :
              /\ delivered[1].responses[i].op = i
              /\ delivered[1].responses[i].cls = ResponseClass(ops[i])

\* C2: once the request has come to rest, after a successful init phase
\* (execute succeeded, execute failed, commit failed) or after an init
\* failure, every DataSource a DS operation acquired has been released to its
\* pool exactly once.
C2_Claim ==
    ((InitSucceeded \/ initErr) /\ Halted) =>
        \A i \in DSOps : opDS[i] # 0 =>
            /\ Count(i, "release") = 1
            /\ dsInst[opDS[i]].st = "idle"

\* C3: a connection is released at most once and only after it was acquired,
\* an idle pooled SQLDataSource holds no connection, and once a request whose
\* init phase succeeded has come to rest every acquired connection has been
\* released.
C3_Claim ==
    /\ \A i \in DSOps : Count(i, "connRelease") <= Count(i, "connAcquire")
    /\ \A k \in 1..DSPoolMax : dsInst[k].st = "idle" => dsInst[k].conn = 0
    /\ (InitSucceeded /\ Halted) =>
          \A i \in DSOps : Count(i, "connRelease") = Count(i, "connAcquire")

\* C4: a DS operation whose transaction was opened and whose execute has
\* finished made exactly one startTransaction call and exactly one
\* terminating call, a commit or a rollback.
C4_Claim ==
    \A i \in DSOps :
        (Count(i, "execute") >= 1 /\ (Len(results) >= i \/ Halted)) =>
            /\ Count(i, "startTx") = 1
            /\ Count(i, "commit") + Count(i, "rollback") = 1

ExecutePhaseEvents == {"op.execute", "startTx", "execute", "commit", "rollback"}

\* C5: when the init of some operation reported an error, no execute (and
\* nothing of the execute phase) is ever invoked, the free phase runs
\* freeResources on every operation of the batch, and the coordinator's
\* callback is invoked once, with the error and without responses.
C5_InitFailureSkipsExecute ==
    InitFailed =>
        /\ phase \in {"free", "done"}
        /\ results = <<>> /\ responses = <<>>
        /\ \A n \in DOMAIN trace : trace[n][2] \notin ExecutePhaseEvents
        /\ phase = "free" => delivered = <<>>
        /\ phase = "done" =>
              /\ delivered = <<Callback(TRUE, <<>>)>>
              /\ Len(freeResult) = N
              /\ \A i \in 1..N : Count(i, "op.freeResources") = 1

\* The second operation's init failed after the first one acquired a
\* DataSource, and the request has finished.
C5_Witness ==
    /\ phase = "done" /\ N = 2
    /\ IsError(initResult[Len(initResult)])
    /\ Len(initResult) = 2 /\ opDS[1] # 0
    /\ delivered = <<Callback(TRUE, <<>>)>>

\* The execute calls were made in list order.
ExecuteInOrder ==
    \A m, n \in DOMAIN trace :
        (m < n /\ trace[m][2] = "op.execute" /\ trace[n][2] = "op.execute")
            => trace[m][1] < trace[n][1]

\* C6: once a batch whose init phase succeeded has come to rest, every
\* operation's execute has been invoked exactly once, in list order.
C6_Claim ==
    (InitSucceeded /\ Halted) =>
        /\ \A i \in 1..N : Count(i, "op.execute") = 1
        /\ ExecuteInOrder

\* C7: the life-cycle calls of a DS operation are made in the order acquire,
\* init, startTransaction, execute, commit or rollback, release, each at
\* most once, nothing after release.
C7_Claim ==
    \A i \in DSOps :
        \A m, n \in DOMAIN Lifecycle(i) :
            m < n => Stage(Lifecycle(i)[m][2]) < Stage(Lifecycle(i)[n][2])

\* C8: once the request has come to rest, a DS operation whose commit failed
\* has a response with the transaction-failed status, a rollback was
\* attempted, its DataSource is back in the pool and every later operation
\* was executed.
C8_Claim ==
    \A i \in DSOps :
        (Count(i, "commitFailed") >= 1 /\ Halted) =>
            /\ Len(delivered) = 1
            /\ Len(delivered[1].responses) = N
            /\ delivered[1].responses[i].status = STATUS_TRANSACTION_FAILED
            /\ Count(i, "rollback") >= 1
            /\ dsInst[opDS[i]].st = "idle"
            /\ \A j \in (i + 1)..N : Count(j, "op.execute") = 1

\* A rollback call for operation i follows its failed commit.
RolledBackAfterCommitFailure(i) ==
    \E m, n \in DOMAIN trace :
        m < n /\ trace[m] = <<i, "commitFailed">> /\ trace[n] = <<i, "rollback">>

HasStatus(r, st) == r.cls \in {"DS", "RPC"} /\ r.status = st

\* C9: a response with the transaction-failed status, in an operation's
\* result or in what the coordinator delivers, belongs to an operation whose
\* rollback was invoked before.
C9_TransactionFailedAfterRollback ==
    /\ \A i \in DOMAIN results :
          HasStatus(results[i], STATUS_TRANSACTION_FAILED)
              => RolledBackAfterCommitFailure(i)
    /\ \A d \in DOMAIN delivered : \A i \in DOMAIN delivered[d].responses :
          HasStatus(delivered[d].responses[i], STATUS_TRANSACTION_FAILED)
              => RolledBackAfterCommitFailure(delivered[d].responses[i].op)

\* A response with the transaction-failed status has been delivered.
C9_Witness ==
    /\ phase = "done"
    /\ \E i \in DOMAIN responses :
          /\ delivered[1].responses[i].status = STATUS_TRANSACTION_FAILED
          /\ Count(i, "rollback") = 1

\* C10: a DS operation whose DataSource.execute reported an error has its
\* rollback invoked and never its commit, its result is a DS response with
\* the failure status for that operation, and in the delivered batch every
\* operation was executed once and has its own result in its slot.
C10_ExecuteErrorRollsBack ==
    \A i \in DSOps :
        Count(i, "executeFailed") >= 1 =>
            /\ Count(i, "rollback") >= 1
            /\ Count(i, "commit") = 0
            /\ Len(results) >= i =>
                  results[i] = [cls |-> "DS", status |-> STATUS_FAILURE, op |-> i]
            /\ phase = "done" =>
                  /\ delivered[1].responses[i] =
                         [cls |-> "DS", status |-> STATUS_FAILURE, op |-> i]
                  /\ \A j \in 1..N :
                        /\ Count(j, "op.execute") = 1
                        /\ delivered[1].responses[j].op = j

\* The first operation's DataSource.execute failed, the second operation
\* succeeded, and both responses were delivered.
C10_Witness ==
    /\ phase = "done" /\ N = 2
    /\ ops[1] = "ds" /\ Count(1, "executeFailed") = 1
    /\ delivered[1].responses[1].status = STATUS_FAILURE
    /\ delivered[1].responses[2].status = STATUS_SUCCESS

\* C11: when the request has finished, freeResources was invoked once on
\* every operation of the batch, whatever the free phase reported, and what
\* the coordinator delivered is determined by the init and execute results
\* alone: the init error, or the responses built from the execute results.
C11_FreeFailureIsOnlyLogged ==
    phase = "done" =>
        /\ \A i \in 1..N : Count(i, "op.freeResources") = 1
        /\ Len(freeResult) = N
        /\ delivered = << IF InitFailed THEN Callback(TRUE, <<>>)
                          ELSE Callback(FALSE, BuildResponses(results)) >>

\* Freeing the first of two operations failed, the second one was freed and
\* both responses were delivered.
C11_Witness ==
    /\ phase = "done" /\ N = 2
    /\ IsError(freeResult[1])
    /\ Count(2, "op.freeResources") = 1
    /\ ~delivered[1].err /\ Len(delivered[1].responses) = 2

\* Calls of the coordinator made so far, per phase.
Started(e) == Cardinality({n \in DOMAIN trace : trace[n][2] = e})

ExecuteCallbacks(i) ==
    Count(i, "executeFailed")
      + Count(i, "commit")
      + (IF dup[i] = "done" THEN 1 ELSE 0)

\* C31: once the request has come to rest, every DS operation on which
\* DataSource.execute was invoked had the completion callback of that call
\* invoked exactly once, whatever its operation type.
C31_Claim ==
    Halted =>
        \A i \in DSOps : Count(i, "execute") = 1 => ExecuteCallbacks(i) = 1

RPCOps == {i \in 1..N : ~IsDS(ops[i])}

\* Calls that ended the transaction of operation i: a commit that did not
\* fail, or a rollback.
Terminations(i) == Count(i, "commit") - Count(i, "commitFailed") + Count(i, "rollback")

\* Position in the trace of the first call of e on operation i (0: none).
FirstCall(i, e) ==
    IF Count(i, e) = 0 THEN 0
    ELSE CHOOSE n \in DOMAIN trace :
             /\ trace[n] = <<i, e>>
             /\ \A m \in 1..(n - 1) : trace[m] # <<i, e>>

\* C32: an RPC operation whose startTransaction was invoked and succeeded
\* and whose freeResources has been called had its transaction ended exactly
\* once before that, by a commit or by a rollback (a rollback that follows a
\* failed commit counts as the one ending).
C32_Claim ==
    \A i \in RPCOps :
        ( /\ Count(i, "startTx") = 1
          /\ Count(i, "startTxFailed") = 0
          /\ Count(i, "op.freeResources") = 1 ) =>
            /\ Terminations(i) = 1
            /\ \A n \in DOMAIN trace :
                  trace[n] \in {<<i, "commit">>, <<i, "rollback">>} =>
                      n < FirstCall(i, "op.freeResources")

\* C33: a DS operation whose startTransaction failed never has
\* DataSource.execute invoked, its result is a DS response with the failure
\* status in its own slot, and the batch goes on: the execute phase is left
\* only when every operation was executed, and the delivered responses hold
\* the failure in that operation's slot.
C33_StartTransactionFailure ==
    \A i \in DSOps :
        Count(i, "startTxFailed") >= 1 =>
            /\ Count(i, "execute") = 0
            /\ Count(i, "commit") + Count(i, "rollback") = 0
            /\ Len(results) >= i
            /\ results[i] = [cls |-> "DS", status |-> STATUS_FAILURE, op |-> i]
            /\ phase \in {"free", "done"} =>
                  /\ Len(results) = N
                  /\ \A j \in 1..N : Count(j, "op.execute") = 1
            /\ phase = "done" =>
                  /\ Len(delivered[1].responses) = N
                  /\ delivered[1].responses[i] =
                         [cls |-> "DS", status |-> STATUS_FAILURE, op |-> i]

\* The first operation's startTransaction failed, the second operation was
\* executed and committed, and both responses were delivered.
C33_Witness ==
    /\ phase = "done" /\ N = 2
    /\ ops[1] = "ds" /\ Count(1, "startTxFailed") = 1
    /\ Count(2, "op.execute") = 1
    /\ delivered[1].responses[1].status = STATUS_FAILURE
    /\ delivered[1].responses[2].status = STATUS_SUCCESS

----------------------------------------------------------------------------
\* Properties of the pools under concurrent clients (PoolSpec).

\* Clients between the callback of DataSourcePool.acquire and the return of
\* the instance to the pool by DataSourcePool.release.
HoldersDS == {c \in Clients : cl[c].pc \in {"held", "connBorrow", "ready", "connReturn", "dsReturn"}}

\* The connection the data source of client c refers to (0: none).
ConnOf(c) == dsInst[cl[c].ds].conn

\* Clients whose data source holds a connection it has acquired in init and
\* not yet given back.
HoldersConn == {c \in HoldersDS : ConnOf(c) # 0}

\* C13: across concurrently processed operations a DataSource instance is
\* held by at most one operation between its acquire and its release, and so
\* is a Connection: two holders never have the same instance, two data
\* sources never refer to the same connection, and what is held is on loan.
C13_ExclusiveOwnership ==
    /\ \A c, d \in HoldersDS : c # d => cl[c].ds # cl[d].ds
    /\ \A c \in HoldersDS : dsInst[cl[c].ds].st = "busy"
    /\ \A c, d \in HoldersConn : c # d => ConnOf(c) # ConnOf(d)
    /\ \A c \in HoldersConn : cl[c].pc \in {"ready", "connReturn"} => connPool[ConnOf(c)] = "busy"

\* Two operations hold a data source and a connection each at the same
\* time, on instances that an earlier operation had held and given back.
C13_Witness ==
    /\ \A c \in Clients : cl[c].pc = "ready"
    /\ \E c \in Clients : cl[c].round > 0

\* Clients that DataSourcePool.acquire has sent to a pool and that have not
\* given back what the pool lent them.
Served == {c \in Clients : cl[c].pc \notin {"start"}}

\* C14: for each pool name at most one pool is ever created and registered,
\* also when several operations make their first acquire for that name at
\* the same time, and every acquire for the name is served by that pool.
C14_OnePoolPerName ==
    /\ \A n \in PoolNames : created[n] <= 1 /\ registry[n] = created[n]
    /\ \A c \in Served : cl[c].pool = registry["ds"] /\ cl[c].pool # 0

\* Two operations are in their first acquire of the same data source id at
\* the same time, neither having received an instance yet.
C14_Witness ==
    /\ \A c \in Clients : cl[c].pc \in {"borrow", "creating"} /\ cl[c].round = 0
    /\ created["ds"] = 1

\* C15: the descriptor of a data source id is read and parsed at most once,
\* however many acquires are made and however many instances the pool of
\* that id creates.
C15_DescriptorReadAtMostOnce == reads <= 1

\* C16: DataSourcePool.acquire always completes by invoking its callback
\* exactly once, with a DataSource or with an error: never more callbacks
\* than acquires, and an acquire that no longer waits for the pool or for
\* the descriptor file has had its callback.
C16_AcquireCallsBackOnce ==
    \A c \in Clients :
        /\ cl[c].callbacks <= cl[c].acquires
        /\ cl[c].pc \notin {"borrow", "creating"} => cl[c].callbacks = cl[c].acquires

----------------------------------------------------------------------------
\* SQLDataSource.executeFetch with advanced criteria: the criterion tree is
\* compiled by _parseAdvancedCriteria into the WHERE condition of the query,
\* and the back end applies the condition to a row. One column takes part;
\* its values and the criterion values are the one-character strings
\* "1" .. "MaxValue", written as numbers, and null.

MaxValue == 2

\* JavaScript null / SQL NULL.
NULL == 0

Values == 0..MaxValue

\* Operators that compare the column with criteria.value.
ValueOperators == {"equals", "notEqual", "greaterThan", "lessThan", "iEquals", "iNotEqual", "contains"}

\* Operators that take no value.
NullOperators == {"isNull", "notNull"}

Criterion(o, v, subs) == [operator |-> o, value |-> v, criteria |-> subs]

\* Operators that compare the column with another field; criteria.value
\* is the name of that field, here always the field "other" of the
\* descriptor, and the model leaves the value slot empty.
FieldOperators == {"equalsField", "iNotEqualField"}

\* Operators the compiler does not support.
UnsupportedOperators == {"regexp", "iregexp"}

\* Criteria on the field.
FieldCriteria ==
    {Criterion(o, v, <<>>) : o \in ValueOperators, v \in Values}
        \cup {Criterion(o, NULL, <<>>) : o \in NullOperators}
        \cup {Criterion(o, NULL, <<>>) : o \in FieldOperators}
        \cup {Criterion(o, v, <<>>) : o \in UnsupportedOperators, v \in Values \ {NULL}}

\* Operators that test the column against a list of values; the value is
\* a single value here, which the compiler wraps into a list of one.
SetOperators == {"inSet", "notInSet"}

SetCriteria == {Criterion(o, v, <<>>) : o \in SetOperators, v \in Values}

LeafCriteria == FieldCriteria \cup SetCriteria

\* dsRequest.criteria: a field criterion, or not / and / or over one or two.
AdvancedCriteria ==
    LeafCriteria
        \cup {Criterion(o, NULL, <<a>>) : o \in {"not", "and", "or"}, a \in LeafCriteria}
        \cup {Criterion(o, NULL, <<a, b>>) : o \in {"not", "and", "or"}, a \in LeafCriteria, b \in LeafCriteria}

\* What strictSQLFiltering of a request can hold: nothing, a boolean, or
\* another JSON value such as the string "true" (the setter accepts any).
StrictValues == {"undefined", "true", "false", "string:true"}

\* Config.getValue("dataSource.strictSQLFiltering").
ConfigValues == {"undefined", "true", "false"}

\* typeof x === "boolean"
IsBoolean(x) == x \in {"true", "false"}

\* JavaScript truthiness, as in if (this.dsRequest.strictSQLFiltering).
Truthy(x) == x \in {"true", "string:true"}

\* this.strictSQLFiltering of the data source: SQLDataSource has no such
\* property.
DataSource_strictSQLFiltering == "undefined"

\* executeFetch: an undefined flag is taken from the configuration; then a
\* boolean flag is set to false.
NormalizeStrict(req, cfg) ==
    LET x == IF req = "undefined" THEN cfg ELSE req
    IN  IF IsBoolean(x) THEN "false" ELSE x

\* A condition is kept as the syntax tree of the string the code builds:
\* t is the kind of node, op the comparison, val the literal the string
\* contains, args the parts. SqlText gives the string.
Node(t, op, val, args) == [t |-> t, op |-> op, val |-> val, args |-> args]

\* q.where(column, op, value) as q.toString() renders it: `col` op value,
\* the value written into the text.
Cmp(op, v) == Node("cmp", op, v, <<>>)

\* q.whereRaw("upper('' || ??) op upper('' || ?)", [column, value])
UCmp(op, v) == Node("ucmp", op, v, <<>>)

\* q.whereRaw("('' || ??) like ? escape ?", [column, "%" + value + "%", "~"])
Like(v) == Node("like", "like", v, <<>>)

\* q.whereNull(column)
ColIsNull == Node("null", "", NULL, <<>>)

\* q.whereNotNull(column)
ColIsNotNull == Node("notnull", "", NULL, <<>>)

\* whereRaw("... ?? op ?? ...", [fieldName, otherColumnName, ...])
CmpF(op) == Node("cmpf", op, NULL, <<>>)

\* whereRaw("... upper('' || ??) op upper('' || ??) ...")
UCmpF(op) == Node("ucmpf", op, NULL, <<>>)

\* "?? is null" and "?? is not null" on the other column
OtherIsNull == Node("nullO", "", NULL, <<>>)
OtherIsNotNull == Node("notnullO", "", NULL, <<>>)

\* return ""
Empty == Node("empty", "", NULL, <<>>)

\* return "1=1"
AlwaysTrue == Node("const", "1=1", NULL, <<>>)

\* return "1=2"
AlwaysFalse == Node("const", "1=2", NULL, <<>>)

\* q.whereIn(column, [value])
In(v) == Node("in", "in", v, <<>>)

\* "(" + sql + ")"
Paren(n) == Node("paren", "", NULL, <<n>>)

\* "not (" + where + ")"
NotParen(n) == Node("not", "", NULL, <<n>>)

\* q.toString().slice(15) of a builder with the where clauses cs, joined by
\* and (where...) or by or (orWhere...).
KnexWhere(bool, cs) == IF Len(cs) = 1 THEN cs[1] ELSE Node(bool, "", NULL, cs)

\* knex: where(column, null) is whereNull(column).
KnexEquals(v) == IF v = NULL THEN ColIsNull ELSE Cmp("=", v)

\* Variant: lenient equals without the null test.
Equals_NoNullTest(value, strict) == KnexEquals(value)

\* operator "equals"
Equals(value, strict) ==
    IF strict THEN KnexEquals(value)
    ELSE IF value = NULL THEN ColIsNull
    ELSE KnexWhere("and", <<Cmp("=", value), ColIsNotNull>>)

\* operator "notEqual": the lenient form adds orWhereNotNull.
NotEqual(value, strict) ==
    IF strict THEN Cmp("<>", value)
    ELSE IF value = NULL THEN ColIsNotNull
    ELSE KnexWhere("or", <<Cmp("<>", value), ColIsNotNull>>)

\* operator "greaterThan"
GreaterThan(value, strict) ==
    IF strict THEN Cmp(">", value)
    ELSE IF value = NULL THEN AlwaysTrue
    ELSE KnexWhere("and", <<Cmp(">", value), ColIsNotNull>>)

\* operator "lessThan"
LessThan(value, strict) ==
    IF strict THEN Cmp("<", value)
    ELSE IF value = NULL THEN AlwaysTrue
    ELSE KnexWhere("or", <<Cmp("<", value), ColIsNull>>)

\* operator "iEquals"
IEquals(value, strict) ==
    IF strict THEN UCmp("=", value)
    ELSE IF value = NULL THEN ColIsNull
    ELSE KnexWhere("and", <<UCmp("=", value), ColIsNotNull>>)

\* operator "iNotEqual"
INotEqual(value, strict) ==
    IF strict THEN UCmp("<>", value)
    ELSE IF value = NULL THEN ColIsNotNull
    ELSE KnexWhere("or", <<UCmp("<>", value), ColIsNull>>)

\* operator "contains": tests this.strictSQLFiltering of the data source,
\* not the flag of the request.
Contains(value) ==
    IF ~Truthy(DataSource_strictSQLFiltering)
    THEN KnexWhere("and", <<Like(value), ColIsNotNull>>)
    ELSE Like(value)

\* operator "equalsField"
EqualsField(strict) ==
    IF strict THEN Paren(CmpF("="))
    ELSE Node("or", "", NULL,
              <<Paren(Node("and", "", NULL, <<ColIsNull, OtherIsNull>>)),
                Paren(Node("and", "", NULL, <<CmpF("="), ColIsNotNull, OtherIsNotNull>>))>>)

\* operator "iNotEqualField": the lenient branch builds its whereRaw and
\* has no return; control reaches the end of the function, which logs
\* "Not supported criterion" and returns "".
INotEqualField(strict) ==
    IF strict THEN UCmpF("<>")
    ELSE Empty

\* operator "inSet": a value that is not a list becomes a list of one; the
\* branch does not look at the strict flag.
InSet(value) ==
    IF value = NULL THEN AlwaysFalse
    ELSE KnexWhere("and", <<In(value), ColIsNotNull>>)

\* operator "notInSet": sets criteria.operator to "inSet", compiles the
\* criterion again and negates the fragment.
NotInSet(value) ==
    LET where == InSet(value) IN
    IF where # Empty THEN NotParen(where) ELSE AlwaysFalse

\* The branch of _parseAdvancedCriteria for a criterion on a field.
ParseFieldCriterion(c, strict) ==
    CASE c.operator = "equals" -> Equals(c.value, strict)
      [] c.operator = "notEqual" -> NotEqual(c.value, strict)
      [] c.operator = "greaterThan" -> GreaterThan(c.value, strict)
      [] c.operator = "lessThan" -> LessThan(c.value, strict)
      [] c.operator = "iEquals" -> IEquals(c.value, strict)
      [] c.operator = "iNotEqual" -> INotEqual(c.value, strict)
      [] c.operator = "contains" -> Contains(c.value)
      [] c.operator = "isNull" -> ColIsNull
      [] c.operator = "notNull" -> ColIsNotNull
      [] c.operator = "equalsField" -> EqualsField(strict)
      [] c.operator = "iNotEqualField" -> INotEqualField(strict)
      [] c.operator = "inSet" -> InSet(c.value)
      [] c.operator = "notInSet" -> NotInSet(c.value)
      [] c.operator \in UnsupportedOperators -> Empty

RECURSIVE ParseAdvancedCriteria(_, _)
\* SQLDataSource._parseAdvancedCriteria; strict is the truthiness of
\* this.dsRequest.strictSQLFiltering.
ParseAdvancedCriteria(c, strict) ==
    CASE c.operator = "not" ->
            NotParen(ParseAdvancedCriteria(Criterion("or", NULL, c.criteria), strict))
      [] c.operator \in {"or", "and"} ->
            KnexWhere(c.operator,
                      [i \in 1..Len(c.criteria) |->
                          Paren(ParseAdvancedCriteria(c.criteria[i], strict))])
      [] OTHER -> ParseFieldCriterion(c, strict)

RECURSIVE AfterParse(_)
\* The criteria object after _parseAdvancedCriteria has run on it: the
\* notInSet branch assigns criteria.operator = "inSet"; the children of
\* not / and / or are the objects of the request.
AfterParse(c) ==
    [operator |-> IF c.operator = "notInSet" THEN "inSet" ELSE c.operator,
     value |-> c.value,
     criteria |-> [i \in 1..Len(c.criteria) |-> AfterParse(c.criteria[i])]]

\* Pieces of SQL text: a keyword or symbol, the column name, or a literal
\* value.
Kw(s) == [k |-> "kw", s |-> s, v |-> NULL]
ColName == [k |-> "col", s |-> "col", v |-> NULL]
OtherName == [k |-> "col", s |-> "other", v |-> NULL]
Lit(v) == [k |-> "lit", s |-> "", v |-> v]

RECURSIVE SqlText(_)
RECURSIVE JoinText(_, _, _)
\* The texts of cs[i..] joined by the keyword bool.
JoinText(cs, i, bool) ==
    IF i = Len(cs) THEN SqlText(cs[i])
    ELSE SqlText(cs[i]) \o <<Kw(bool)>> \o JoinText(cs, i + 1, bool)

\* The SQL string of a condition.
SqlText(n) ==
    CASE n.t = "cmp" -> <<ColName, Kw(n.op), Lit(n.val)>>
      [] n.t = "ucmp" -> <<Kw("upper('' ||"), ColName, Kw(")"), Kw(n.op),
                           Kw("upper('' ||"), Lit(n.val), Kw(")")>>
      [] n.t = "like" -> <<Kw("('' ||"), ColName, Kw(")"), Kw("like"), Kw("%"),
                           Lit(n.val), Kw("%"), Kw("escape '~'")>>
      [] n.t = "in" -> <<ColName, Kw("in ("), Lit(n.val), Kw(")")>>
      [] n.t = "null" -> <<ColName, Kw("is null")>>
      [] n.t = "notnull" -> <<ColName, Kw("is not null")>>
      [] n.t = "const" -> <<Kw(n.op)>>
      [] n.t = "cmpf" -> <<ColName, Kw(n.op), OtherName>>
      [] n.t = "ucmpf" -> <<Kw("upper('' ||"), ColName, Kw(")"), Kw(n.op),
                            Kw("upper('' ||"), OtherName, Kw(")")>>
      [] n.t = "nullO" -> <<OtherName, Kw("is null")>>
      [] n.t = "notnullO" -> <<OtherName, Kw("is not null")>>
      [] n.t = "empty" -> <<>>
      [] n.t = "paren" -> <<Kw("(")>> \o SqlText(n.args[1]) \o <<Kw(")")>>
      [] n.t = "not" -> <<Kw("not"), Kw("(")>> \o SqlText(n.args[1]) \o <<Kw(")")>>
      [] n.t \in {"and", "or"} -> JoinText(n.args, 1, n.t)

\* SQL's three truth values; "E" stands for a statement the back end
\* rejects because a part of it is not SQL.
Truth(b) == IF b THEN "T" ELSE "F"
Not3(x) == CASE x = "T" -> "F" [] x = "F" -> "T" [] OTHER -> x
And3(xs) ==
    IF \E i \in 1..Len(xs) : xs[i] = "E" THEN "E"
    ELSE IF \E i \in 1..Len(xs) : xs[i] = "F" THEN "F"
    ELSE IF \E i \in 1..Len(xs) : xs[i] = "U" THEN "U" ELSE "T"
Or3(xs) ==
    IF \E i \in 1..Len(xs) : xs[i] = "E" THEN "E"
    ELSE IF \E i \in 1..Len(xs) : xs[i] = "T" THEN "T"
    ELSE IF \E i \in 1..Len(xs) : xs[i] = "U" THEN "U" ELSE "F"

\* r op v for values that are not null.
Compare(op, r, v) ==
    CASE op = "=" -> r = v
      [] op = "<>" -> r # v
      [] op = ">" -> r > v
      [] op = "<" -> r < v

RECURSIVE Eval(_, _, _)
\* The truth value the back end gives a condition on a row whose column
\* holds r and whose other column holds o. A comparison with NULL is UNKNOWN; '' || NULL is NULL; the
\* pattern %v% matches a one-character string when it is v, and the
\* pattern %% of a null criteria.value (escapeSQLLikeValue gives "")
\* matches every string.
Eval(n, r, o) ==
    CASE n.t \in {"cmp", "ucmp"} ->
            IF r = NULL \/ n.val = NULL THEN "U" ELSE Truth(Compare(n.op, r, n.val))
      [] n.t = "like" ->
            IF r = NULL THEN "U" ELSE Truth(n.val = NULL \/ r = n.val)
      [] n.t = "null" -> Truth(r = NULL)
      [] n.t = "notnull" -> Truth(r # NULL)
      [] n.t = "in" -> IF r = NULL THEN "U" ELSE Truth(r = n.val)
      [] n.t = "const" -> Truth(n.op = "1=1")
      [] n.t \in {"cmpf", "ucmpf"} ->
            IF r = NULL \/ o = NULL THEN "U" ELSE Truth(Compare(n.op, r, o))
      [] n.t = "nullO" -> Truth(o = NULL)
      [] n.t = "notnullO" -> Truth(o # NULL)
      [] n.t = "empty" -> "E"
      [] n.t = "paren" -> Eval(n.args[1], r, o)
      [] n.t = "not" -> Not3(Eval(n.args[1], r, o))
      [] n.t = "and" -> And3([i \in 1..Len(n.args) |-> Eval(n.args[i], r, o)])
      [] n.t = "or" -> Or3([i \in 1..Len(n.args) |-> Eval(n.args[i], r, o)])

RECURSIVE UsesOther(_)
\* The criteria compare the column with the other column.
UsesOther(c) ==
    \/ c.operator \in FieldOperators
    \/ \E i \in 1..Len(c.criteria) : UsesOther(c.criteria[i])

\* executeFetch of a request with advanced criteria: settle the flag, then
\* q.whereRaw(this._parseAdvancedCriteria(criteria)) without bindings, and
\* send q.toSQL().
SQLDataSource_executeFetch ==
    /\ sqlPc = "request"
    /\ strictSQLFiltering' = NormalizeStrict(strictSQLFiltering, strictCfg)
    /\ sqlOut' = [where |-> ParseAdvancedCriteria(criteria, Truthy(strictSQLFiltering')),
                  bindings |-> <<>>,
                  criteria |-> AfterParse(criteria)]
    /\ sqlPc' = "compiled"
    /\ UNCHANGED <<coordVars, poolVars, moreVars, dsInst, connPool, criteria, strictReq, strictCfg, row, other, selected>>

\* client.query resolves: the back end has applied the WHERE condition to
\* the row.
SQLDataSource_executeFetch_then ==
    /\ sqlPc = "compiled"
    /\ selected' = IF sqlOut.where = Empty
                    THEN "T"    \* q.whereRaw(""): the query has no WHERE
                    ELSE Eval(sqlOut.where, row, other)
    /\ sqlPc' = "answered"
    /\ UNCHANGED <<coordVars, poolVars, moreVars, dsInst, connPool, criteria, strictReq, strictSQLFiltering,
                   strictCfg, row, other, sqlOut>>

SqlInit ==
    /\ criteria \in AdvancedCriteria
    /\ strictReq \in StrictValues
    /\ strictSQLFiltering = strictReq
    /\ strictCfg \in ConfigValues
    /\ row \in Values
    /\ other \in IF UsesOther(criteria) THEN Values ELSE {NULL}
    /\ sqlPc = "request"
    /\ sqlOut = [where |-> <<>>, bindings |-> <<>>]
    /\ selected = "U"
    /\ registry = [n \in PoolNames |-> 0]
    /\ created = [n \in PoolNames |-> 0]
    /\ descriptor = "xml" /\ reads = 0
    /\ cl = [c \in Clients |-> NoClient]
    /\ dsInst = [k \in 1..DSPoolMax |-> [st |-> "none", conn |-> 0]]
    /\ connPool = [n \in 1..ConnPoolMax |-> "none"]
    /\ ops = <<>> /\ phase = "idle" /\ idx = 1 /\ pc = "call"
    /\ initResult = <<>> /\ results = <<>> /\ freeResult = <<>>
    /\ responses = <<>> /\ initErr = FALSE /\ delivered = <<>> /\ trace = <<>>
    /\ opDS = [i \in 1..MaxOps |-> 0]
    /\ serverObject = [i \in 1..MaxOps |-> FALSE]
    /\ dup = [i \in 1..MaxOps |-> "none"]
    /\ NoMore

SqlNext ==
    \/ SQLDataSource_executeFetch
    \/ SQLDataSource_executeFetch_then

SqlSpec == SqlInit /\ [][SqlNext]_vars

----------------------------------------------------------------------------
\* Properties of the compiled criteria (SqlSpec).

RECURSIVE WithValues(_, _)
\* The criteria c with every user-supplied value moved on by k: the same
\* tree with other values. A null value stays null.
WithValues(c, k) ==
    [operator |-> c.operator,
     value |-> IF c.value = NULL THEN NULL ELSE ((c.value + k - 1) % MaxValue) + 1,
     criteria |-> [i \in 1..Len(c.criteria) |-> WithValues(c.criteria[i], k)]]

\* The SQL string carries a user-supplied value.
EmbedsValue(text) == \E i \in 1..Len(text) : text[i].k = "lit" /\ text[i].v # NULL

\* C17: two fetch requests whose advanced criteria differ only in the
\* user-supplied values send the same SQL text: the values travel as bound
\* parameters only and never inside the SQL string.
C17_ValuesOnlyAsBindings ==
    sqlPc # "request" =>
        /\ ~EmbedsValue(SqlText(sqlOut.where))
        /\ \A k \in 1..MaxValue :
              SqlText(ParseAdvancedCriteria(WithValues(criteria, k), Truthy(strictSQLFiltering)))
                  = SqlText(sqlOut.where)

\* The request is compiled in lenient mode.
Lenient == ~Truthy(strictSQLFiltering)

\* criteria is not([equals(col, v)]) with v not null.
IsNotEquals ==
    /\ criteria.operator = "not"
    /\ Len(criteria.criteria) = 1
    /\ criteria.criteria[1].operator = "equals"
    /\ criteria.criteria[1].value # NULL

\* C18: in lenient mode not([equals(col, v)]) with v not null compiles to
\* NOT ((col = v AND col IS NOT NULL)) and selects exactly the rows where
\* col is null or differs from v.
C18_NotEqualsIncludesNull ==
    (sqlPc = "answered" /\ Lenient /\ IsNotEquals) =>
        /\ SqlText(sqlOut.where)
              = <<Kw("not"), Kw("("), Kw("("), ColName, Kw("="), Lit(criteria.criteria[1].value),
                  Kw("and"), ColName, Kw("is not null"), Kw(")"), Kw(")")>>
        /\ selected \in {"T", "F"}
        /\ selected = "T" <=> (row = NULL \/ row # criteria.criteria[1].value)

\* The back end has selected a row whose column is null for a lenient
\* not([equals(col, v)]).
C18_Witness ==
    /\ sqlPc = "answered" /\ Lenient /\ IsNotEquals
    /\ row = NULL /\ selected = "T"

\* What the back end makes of the row for not([criteria]) under the flag
\* the request was compiled with.
NegationSelects ==
    Eval(ParseAdvancedCriteria(Criterion("not", NULL, <<criteria>>), Truthy(strictSQLFiltering)), row, other)

\* C19: in lenient mode every predicate on a field is TRUE or FALSE on
\* every row, never UNKNOWN, also when the column is null, so that not(P)
\* selects exactly the rows P does not select.
C19_LenientIsTwoValued ==
    (sqlPc = "answered" /\ Lenient /\ criteria \in FieldCriteria) =>
        /\ selected \in {"T", "F"}
        /\ NegationSelects = "T" <=> selected # "T"

\* The SQL string tests the column for null.
HasNullTest(text) ==
    \E i \in 1..Len(text) : text[i] \in {Kw("is null"), Kw("is not null")}

\* C20: with strictSQLFiltering true each field operator compiles to the
\* bare SQL predicate, without an added IS NULL or IS NOT NULL clause.
C20_StrictAddsNoNullTest ==
    (sqlPc # "request" /\ strictReq = "true"
        /\ criteria.operator \in ValueOperators /\ criteria.value # NULL) =>
        ~HasNullTest(SqlText(sqlOut.where))

RECURSIVE OnlySupported(_)
\* The criteria tree is built from supported operators only.
OnlySupported(c) ==
    /\ c.operator \notin UnsupportedOperators
    /\ \A i \in 1..Len(c.criteria) : OnlySupported(c.criteria[i])

RECURSIVE DropsFilter(_)
\* Some part of the condition is the empty fragment.
DropsFilter(n) == n = Empty \/ \E i \in 1..Len(n.args) : DropsFilter(n.args[i])

RECURSIVE Describes(_, _, _)
\* The rows a criteria tree describes in lenient mode: null is a value of
\* its own that is less than every other value, and not / and / or are the
\* set operations.
Describes(c, r, o) ==
    CASE c.operator \in {"equals", "iEquals"} -> r = c.value
      [] c.operator \in {"notEqual", "iNotEqual"} -> r # c.value
      [] c.operator = "greaterThan" -> c.value = NULL \/ (r # NULL /\ r > c.value)
      [] c.operator = "lessThan" -> c.value = NULL \/ r = NULL \/ r < c.value
      [] c.operator = "contains" -> r # NULL /\ (c.value = NULL \/ r = c.value)
      [] c.operator = "isNull" -> r = NULL
      [] c.operator = "notNull" -> r # NULL
      [] c.operator = "equalsField" -> r = o
      [] c.operator = "iNotEqualField" -> r # o
      [] c.operator = "inSet" -> c.value # NULL /\ r = c.value
      [] c.operator = "notInSet" -> ~(c.value # NULL /\ r = c.value)
      [] c.operator = "not" -> \A i \in 1..Len(c.criteria) : ~Describes(c.criteria[i], r, o)
      [] c.operator = "and" -> \A i \in 1..Len(c.criteria) : Describes(c.criteria[i], r, o)
      [] c.operator = "or" -> \E i \in 1..Len(c.criteria) : Describes(c.criteria[i], r, o)
      [] OTHER -> TRUE

\* The operators of a criteria tree.
OperatorsOf(c) == {c.operator} \cup {c.criteria[i].operator : i \in 1..Len(c.criteria)}

\* C21: for a criteria tree of supported operators on defined fields the
\* compiled fragment selects only rows the tree describes; no supported
\* operator compiles to the empty fragment, so no filter is dropped.
\* (Trees with notEqual are left to the claim about negation.)
C21_SupportedOperatorsFilter ==
    (sqlPc = "answered" /\ Lenient /\ OnlySupported(criteria)
        /\ "notEqual" \notin OperatorsOf(criteria)) =>
        /\ ~DropsFilter(sqlOut.where)
        /\ selected = "T" => Describes(criteria, row, other)

\* C36: in lenient mode notEqual(col, v) compiles to col IS NOT NULL when v
\* is null, and to col <> v OR col IS NULL when v is not null.
C36_LenientNotEqualText ==
    (sqlPc # "request" /\ Lenient /\ criteria.operator = "notEqual") =>
        SqlText(sqlOut.where)
            = IF criteria.value = NULL
              THEN <<ColName, Kw("is not null")>>
              ELSE <<ColName, Kw("<>"), Lit(criteria.value), Kw("or"), ColName, Kw("is null")>>

\* The compiled children of c that are not the empty fragment, each in
\* parentheses.
NonEmptyTerms(c, strict) ==
    LET compiled == [i \in 1..Len(c.criteria) |-> ParseAdvancedCriteria(c.criteria[i], strict)]
        Kept(n) == n # Empty
        kept == SelectSeq(compiled, Kept)
    IN  [i \in 1..Len(kept) |-> Paren(kept[i])]

\* C37: and(c1..cn) compiles to the conjunction of exactly those children
\* that compile to a non-empty fragment; a child that compiles to the empty
\* fragment contributes no term.
C37_AndSkipsEmptyChildren ==
    (sqlPc # "request" /\ criteria.operator = "and") =>
        LET terms == NonEmptyTerms(criteria, Truthy(strictSQLFiltering)) IN
        SqlText(sqlOut.where)
            = IF terms = <<>> THEN <<>> ELSE SqlText(KnexWhere("and", terms))

\* C38: compiling leaves the criteria tree of the request as it was, and
\* compiling the request's criteria once more gives the same fragment.
C38_CompileLeavesTree ==
    sqlPc # "request" =>
        /\ sqlOut.criteria = criteria
        /\ SqlText(ParseAdvancedCriteria(sqlOut.criteria, Truthy(strictSQLFiltering)))
              = SqlText(sqlOut.where)

----------------------------------------------------------------------------
\* DSRequest.execute of one operation on an SQLDataSource, statement by
\* statement: begin, the statements of executeFetch / executeAdd /
\* executeUpdate / executeRemove, then commit or rollback in
\* _executeFinish. The table has one primary-key field; a row is written
\* as its key.

\* Largest primary key.
MaxKey == 3

\* JavaScript undefined: a property the request does not carry.
Undef == -1

Keys == 1..MaxKey

OperationTypes == {"fetch", "add", "update", "remove"}

\* Requests: pk is the primary-key value in criteria, startRow and endRow
\* are what the request carries; pkType is the type of the primary-key
\* field in the descriptor.
DSRequests ==
    [operationType : {"fetch"}, pk : {Undef}, pkType : {"sequence"},
     startRow : {Undef} \cup 0..1, endRow : {Undef} \cup 1..MaxKey]
        \cup [operationType : {"add", "update", "remove"}, pk : {Undef} \cup Keys,
              pkType : {"sequence", "integer"}, startRow : {Undef}, endRow : {Undef}]

\* A statement sent on the connection.
Stmt(kind, pk, offset, limit) == [kind |-> kind, pk |-> pk, offset |-> offset, limit |-> limit]
Plain(kind) == Stmt(kind, Undef, Undef, Undef)

\* new DSResponse(Const.STATUS_SUCCESS, data)
SuccessResponse(data, startRow, endRow, totalRows) ==
    [status |-> STATUS_SUCCESS, data |-> data, startRow |-> startRow,
     endRow |-> endRow, totalRows |-> totalRows]

\* new DSResponse(err)
FailureResponse ==
    [status |-> STATUS_FAILURE, data |-> <<>>, startRow |-> Undef,
     endRow |-> Undef, totalRows |-> Undef]

\* get startRow / get endRow of DSRequest: parseInt(this.data[...], 10),
\* and 0 when that is NaN.
DSRequest_startRow(r) == IF r.startRow = Undef THEN 0 ELSE r.startRow
DSRequest_endRow(r) == IF r.endRow = Undef THEN 0 ELSE r.endRow

\* isNaN(parseInt(x))
IsNaN(x) == x = Undef

\* The SELECT of executeFetch: q.offset(startRow) and q.limit(endRow) are
\* called unless the parsed value is NaN.
FetchStatement(r) ==
    Stmt("select", Undef,
         IF IsNaN(DSRequest_startRow(r)) THEN Undef ELSE DSRequest_startRow(r),
         IF IsNaN(DSRequest_endRow(r)) THEN Undef ELSE DSRequest_endRow(r))

\* Variant: getPKValue never throws.
MissingPK_Never(v) == FALSE

\* getPKValue throws when the object has no value for the primary-key
\* field.
MissingPK(v) == v = Undef

RECURSIVE Sorted(_)
\* The keys of a set of rows in ascending order.
Sorted(S) ==
    IF S = {} THEN <<>>
    ELSE LET x == CHOOSE x \in S : \A y \in S : x <= y IN <<x>> \o Sorted(S \ {x})

\* Rows a SELECT returns: those with the key when it has a WHERE on the
\* key, then OFFSET and LIMIT when the statement has them.
Rows(t, st) ==
    LET all == Sorted(IF st.pk = Undef THEN t ELSE t \cap {st.pk})
        from == IF st.offset = Undef THEN 0 ELSE st.offset
        upTo == IF st.limit = Undef THEN Len(all)
                ELSE IF from + st.limit < Len(all) THEN from + st.limit ELSE Len(all)
    IN  SubSeq(all, from + 1, upTo)

\* Variant: the refresh SELECT has no WHERE.
RefreshStatement_All(pk) == Stmt("select", Undef, Undef, Undef)

\* refreshQ: select ... where(sqlPKValue)
RefreshStatement(pk) == Stmt("select", pk, Undef, Undef)

\* The key the back end gives an inserted row: the value provided, or the
\* next value of the sequence (0: no key).
InsertKey(t, r, v) ==
    IF v # Undef THEN v
    ELSE IF r.pkType = "sequence"
         THEN (IF t = {} THEN 1 ELSE (CHOOSE x \in t : \A y \in t : y <= x) + 1)
         ELSE 0

Last(q) == q[Len(q)]

\* DSRequest.execute: startTransaction sends "begin".
SQLDataSource_startTransaction ==
    /\ epc = "start"
    /\ stmts' = <<Plain("begin")>>
    /\ epc' = "begin"
    /\ UNCHANGED <<baseVars, afterExecVars, dsRequest, values, table, generated, dsResponse>>

\* Callback of startTransaction: a failure becomes a failure response;
\* otherwise DataSource.execute dispatches on the operation type. Update
\* and remove take the key from criteria first and report an error without
\* a statement when it is missing, which _executeFinish answers with
\* rollback.
SQLDataSource_startTransaction_then ==
    /\ epc = "begin"
    /\ \/ /\ dsResponse' = FailureResponse
          /\ epc' = "done"
          /\ UNCHANGED stmts
       \/ /\ dsRequest.operationType \in {"update", "remove"}
          /\ IF MissingPK(dsRequest.pk)
             THEN stmts' = Append(stmts, Plain("rollback")) /\ epc' = "rollback"
             ELSE /\ stmts' = Append(stmts, Stmt(IF dsRequest.operationType = "update"
                                                 THEN "update" ELSE "delete",
                                                 dsRequest.pk, Undef, Undef))
                  /\ epc' = "query"
          /\ UNCHANGED dsResponse
       \/ /\ dsRequest.operationType = "add"
          /\ stmts' = Append(stmts, Stmt("insert", values, Undef, Undef))
          /\ epc' = "query"
          /\ UNCHANGED dsResponse
       \/ /\ dsRequest.operationType = "fetch"
          /\ stmts' = Append(stmts, FetchStatement(dsRequest))
          /\ epc' = "query"
          /\ UNCHANGED dsResponse
    /\ UNCHANGED <<baseVars, afterExecVars, dsRequest, values, table, generated>>

\* The first statement of the operation completes.
SQLDataSource_query_then ==
    /\ epc = "query"
    /\ \/ \* rejected: callback(new Exception("Failed to ..."))
          /\ stmts' = Append(stmts, Plain("rollback")) /\ epc' = "rollback"
          /\ UNCHANGED <<values, table, generated, dsResponse>>
       \/ /\ dsRequest.operationType = "fetch"
          /\ LET rows == Rows(table, Last(stmts))
                 startRow == IF Last(stmts).offset = Undef THEN 0 ELSE Last(stmts).offset
             IN  dsResponse' = SuccessResponse(rows, startRow, startRow + Len(rows), Len(rows))
          /\ stmts' = Append(stmts, Plain("commit")) /\ epc' = "commit"
          /\ UNCHANGED <<values, table, generated>>
       \/ /\ dsRequest.operationType \in {"update", "remove"}
          /\ IF dsRequest.pk \notin table
             THEN \* result < 1: "Row does not exists in data base"
                  /\ stmts' = Append(stmts, Plain("rollback")) /\ epc' = "rollback"
                  /\ UNCHANGED <<table, dsResponse>>
             ELSE IF dsRequest.operationType = "remove"
             THEN /\ table' = table \ {dsRequest.pk}
                  /\ dsResponse' = SuccessResponse(<<dsRequest.pk>>, Undef, Undef, Undef)
                  /\ stmts' = Append(stmts, Plain("commit")) /\ epc' = "commit"
             ELSE /\ stmts' = Append(stmts, RefreshStatement(dsRequest.pk)) /\ epc' = "refresh"
                  /\ UNCHANGED <<table, dsResponse>>
          /\ UNCHANGED <<values, generated>>
       \/ /\ dsRequest.operationType = "add"
          /\ LET key == InsertKey(table, dsRequest, values) IN
             /\ key \in Keys \ table     \* otherwise the insert is rejected
             /\ table' = table \cup {key}
             /\ generated' = key
             /\ values' = IF dsRequest.pkType = "sequence" THEN key ELSE values
          /\ IF MissingPK(values')
             THEN stmts' = Append(stmts, Plain("rollback")) /\ epc' = "rollback"
             ELSE stmts' = Append(stmts, RefreshStatement(values')) /\ epc' = "refresh"
          /\ UNCHANGED dsResponse
    /\ UNCHANGED <<baseVars, afterExecVars, dsRequest>>

\* The refresh SELECT of executeAdd / executeUpdate completes.
SQLDataSource_refresh_then ==
    /\ epc = "refresh"
    /\ \/ /\ stmts' = Append(stmts, Plain("rollback")) /\ epc' = "rollback"
          /\ UNCHANGED dsResponse
       \/ /\ dsResponse' = SuccessResponse(Rows(table, Last(stmts)), Undef, Undef, Undef)
          /\ stmts' = Append(stmts, Plain("commit")) /\ epc' = "commit"
    /\ UNCHANGED <<baseVars, afterExecVars, dsRequest, values, table, generated>>

\* Callback of commit in _executeFinish: the response is returned; after a
\* failed commit the status is set from DSResponse.STATUS_TRANSACTION_FAILED.
SQLDataSource_commit_then ==
    /\ epc = "commit"
    /\ \/ epc' = "done" /\ UNCHANGED stmts
       \/ IF StatusSetterThrows(DSResponse_STATUS_TRANSACTION_FAILED)
          THEN epc' = "thrown" /\ UNCHANGED stmts
          ELSE stmts' = Append(stmts, Plain("rollback")) /\ epc' = "rollback"
    /\ UNCHANGED <<baseVars, afterExecVars, dsRequest, values, table, generated, dsResponse>>

\* Callback of rollback in _executeFinish: a failed rollback is only
\* logged, and the failure response is returned.
SQLDataSource_rollback_then ==
    /\ epc = "rollback"
    /\ dsResponse' = FailureResponse
    /\ epc' = "done"
    /\ UNCHANGED <<baseVars, afterExecVars, dsRequest, values, stmts, table, generated>>

\* The pipeline and the pools at rest.
NoBatch ==
    /\ ops = <<>> /\ phase = "idle" /\ idx = 1 /\ pc = "call"
    /\ initResult = <<>> /\ results = <<>> /\ freeResult = <<>>
    /\ responses = <<>> /\ initErr = FALSE /\ delivered = <<>> /\ trace = <<>>
    /\ opDS = [i \in 1..MaxOps |-> 0]
    /\ serverObject = [i \in 1..MaxOps |-> FALSE]
    /\ dup = [i \in 1..MaxOps |-> "none"]
    /\ dsInst = [k \in 1..DSPoolMax |-> [st |-> "none", conn |-> 0]]
    /\ connPool = [n \in 1..ConnPoolMax |-> "none"]
    /\ registry = [n \in PoolNames |-> 0]
    /\ created = [n \in PoolNames |-> 0]
    /\ descriptor = "xml" /\ reads = 0
    /\ cl = [c \in Clients |-> NoClient]

ExecInit ==
    /\ dsRequest \in DSRequests
    /\ values \in IF dsRequest.operationType = "add" THEN {Undef} \cup Keys ELSE {Undef}
    /\ table \in {1..n : n \in 0..(MaxKey - 1)}
    /\ stmts = <<>> /\ epc = "start" /\ generated = 0 /\ dsResponse = <<>>
    /\ NoBatch
    /\ NoFetch
    /\ NoRequest /\ NoParse /\ NoRecords /\ NoLoader /\ NoLater

ExecNext ==
    \/ SQLDataSource_startTransaction
    \/ SQLDataSource_startTransaction_then
    \/ SQLDataSource_query_then
    \/ SQLDataSource_refresh_then
    \/ SQLDataSource_commit_then
    \/ SQLDataSource_rollback_then

ExecSpec == ExecInit /\ [][ExecNext]_vars

----------------------------------------------------------------------------
\* Properties of the statements of one operation (ExecSpec).

\* The kinds of the statements sent so far.
Sent == {stmts[i].kind : i \in 1..Len(stmts)}

\* "begin" was rejected: the operation has no transaction and was answered
\* with a failure response at once.
BeginFailed == epc = "done" /\ stmts = <<Plain("begin")>>

\* The operation is an update or remove whose criteria have no value for
\* the primary-key field, and its transaction has begun.
UpdateWithoutPK ==
    /\ dsRequest.operationType \in {"update", "remove"}
    /\ dsRequest.pk = Undef
    /\ epc \notin {"start", "begin"} /\ ~BeginFailed

\* C22: an update or remove whose criteria lack a value for a primary-key
\* field fails with a failure response; no UPDATE or DELETE statement is
\* issued and the transaction of the operation is rolled back.
C22_MissingPKFailsWithoutSQL ==
    UpdateWithoutPK =>
        /\ Sent \cap {"update", "delete", "insert", "select", "commit"} = {}
        /\ epc \in {"rollback", "done"}
        /\ epc = "done" =>
              /\ dsResponse = FailureResponse
              /\ stmts = <<Plain("begin"), Plain("rollback")>>

\* An update without a key has been answered after its transaction began.
C22_Witness ==
    /\ UpdateWithoutPK /\ dsRequest.operationType = "update"
    /\ epc = "done" /\ "rollback" \in Sent

\* An add on a table whose primary key is a sequence has been answered
\* with a success response.
SuccessfulSequenceAdd ==
    /\ dsRequest.operationType = "add" /\ dsRequest.pkType = "sequence"
    /\ epc = "done" /\ dsResponse.status = STATUS_SUCCESS

\* C23: every successful add on a data source whose primary key is a field
\* of type sequence returns one record, whose primary key is not null and
\* is the key the insert generated.
C23_AddReturnsGeneratedKey ==
    SuccessfulSequenceAdd =>
        /\ generated \in Keys
        /\ dsResponse.data = <<generated>>
        /\ generated \in table

\* A successful add into a table that had rows before, with a key the
\* sequence generated.
C23_Witness ==
    /\ SuccessfulSequenceAdd
    /\ Cardinality(table) > 1
    /\ generated = Cardinality(table)

\* The SELECT of a fetch has been sent (it follows "begin").
FetchSent == dsRequest.operationType = "fetch" /\ Len(stmts) >= 2

\* C24: a fetch applies LIMIT endRow only when the request provides endRow:
\* a fetch request without endRow has no LIMIT and its answer holds every
\* row from startRow on.
C24_NoEndRowIsUnbounded ==
    (FetchSent /\ dsRequest.endRow = Undef) =>
        /\ stmts[2].limit = Undef
        /\ (epc = "done" /\ dsResponse.status = STATUS_SUCCESS) =>
              dsResponse.data = SubSeq(Sorted(table), DSRequest_startRow(dsRequest) + 1,
                                       Cardinality(table))

----------------------------------------------------------------------------
\* The construction of a DSRequest from an element of the operations list,
\* and the text filter SQLDataSource.executeFetch makes of a simple
\* criteria value with the request's textMatchStyle.
\*
\* A string is the sequence of its parts and of the "_" between them:
\* "DS_fetch" is <<"DS", "_", "fetch">>. An operation type is the sequence
\* of the parts it is made of; a property that is not there is <<>> (for a
\* string) or "undefined" (for a textMatchStyle).

TEXT_MATCH_STYLE_EXACT == "exact"
TEXT_MATCH_STYLE_EXACT_CASE == "exactCase"
TEXT_MATCH_STYLE_SUBSTRING == "substring"
TEXT_MATCH_STYLE_STARTS_WITH == "startsWith"

OPERATION_TYPE_FETCH == <<"fetch">>
OPERATION_TYPE_UPDATE == <<"update">>
OPERATION_TYPE_REMOVE == <<"remove">>

\* The `operation` strings of the requests examined.
OperationStrings ==
    {<<"DS">>, <<"DS", "_", "fetch">>, <<"DS", "_", "update">>,
     <<"DS", "_", "remove">>, <<"DS", "_", "fetch", "_", "all">>}

\* The operationConfig objects of the requests examined; `present` is FALSE
\* when the request has none.
NoOperationConfig ==
    [present |-> FALSE, dataSource |-> <<>>, operationType |-> <<>>,
     textMatchStyle |-> "undefined"]

OperationConfigs ==
    {NoOperationConfig} \cup
    [present : {TRUE}, dataSource : {<<"DS">>},
     operationType : {<<>>, OPERATION_TYPE_FETCH, OPERATION_TYPE_UPDATE,
                      OPERATION_TYPE_REMOVE, <<"add">>},
     textMatchStyle : {"undefined", TEXT_MATCH_STYLE_EXACT, TEXT_MATCH_STYLE_EXACT_CASE,
                       TEXT_MATCH_STYLE_SUBSTRING, TEXT_MATCH_STYLE_STARTS_WITH}]

RequestData == [operation : OperationStrings, operationConfig : OperationConfigs]

\* String.split("_"): the parts of the string.
Split(str) == SelectSeq(str, LAMBDA part : part # "_")

\* Array.join("_") of the parts that follow the first one: an operation
\* type, the sequence of those parts.
JoinRest(parts) == Tail(parts)

\* Variant: only update ends with exact.
ForcesExact_UpdateOnly(operationType) == operationType = OPERATION_TYPE_UPDATE

\* The DSRequest constructor's last step: update and remove end with exact.
ForcesExact(operationType) ==
    operationType \in {OPERATION_TYPE_UPDATE, OPERATION_TYPE_REMOVE}

\* The DSRequest constructor: textMatchStyle starts as substring; an
\* operationConfig object gives data source name, operation type and
\* textMatchStyle (whatever it holds, nothing included); otherwise name
\* and type come from an operation string of the form DSNAME_OPTYPE; update
\* and remove end with exact.
DSRequest_constructor(d) ==
    LET cfg == d.operationConfig
        parts == Split(d.operation)
        derived == ~cfg.present /\ Len(parts) > 1
        operationType == IF cfg.present THEN cfg.operationType
                         ELSE IF derived THEN JoinRest(parts) ELSE <<>>
        style == IF cfg.present THEN cfg.textMatchStyle
                 ELSE TEXT_MATCH_STYLE_SUBSTRING
    IN [dataSourceName |-> IF cfg.present THEN cfg.dataSource
                           ELSE IF derived THEN <<Head(parts)>> ELSE <<>>,
        operationType |-> operationType,
        textMatchStyle |-> IF ForcesExact(operationType)
                           THEN TEXT_MATCH_STYLE_EXACT
                           ELSE style]

\* _addSQLSubstringFilter: a textMatchStyle that is not there counts as
\* substring.
DefaultTextMatchStyle(textMatchStyle) ==
    IF textMatchStyle = "undefined" THEN TEXT_MATCH_STYLE_SUBSTRING ELSE textMatchStyle

\* _addSQLSubstringFilter(column, value, textMatchStyle, params): the SQL
\* and the value bound to it, for the criteria value "v".
AddSQLSubstringFilter(textMatchStyle) ==
    LET style == DefaultTextMatchStyle(textMatchStyle) IN
    IF style = TEXT_MATCH_STYLE_EXACT
    THEN [sql |-> "?? = ?", param |-> <<"v">>]
    ELSE IF style = TEXT_MATCH_STYLE_EXACT_CASE
    THEN [sql |-> "upper('' || ??) = upper('' || ?)", param |-> <<"v">>]
    ELSE IF style = TEXT_MATCH_STYLE_STARTS_WITH
    THEN [sql |-> "upper('' || ??) like upper(?) escape ?", param |-> <<"%", "v">>]
    ELSE [sql |-> "upper('' || ??) like upper(?) escape ?", param |-> <<"%", "v", "%">>]

\* new DSRequest(rpcManager, operation).
DSRequest_new ==
    /\ rqPc = "data"
    /\ newRequest' = DSRequest_constructor(requestData)
    /\ rqPc' = "constructed"
    /\ UNCHANGED <<baseVars, execVars, afterRequestVars, requestData, matchSQL>>

\* SQLDataSource.executeFetch with simple criteria {field: "v"}: the
\* dispatcher calls it for a fetch, and the value becomes a text filter.
SQLDataSource_executeFetch_simple ==
    /\ rqPc = "constructed"
    /\ newRequest.operationType = OPERATION_TYPE_FETCH
    /\ matchSQL' = AddSQLSubstringFilter(newRequest.textMatchStyle)
    /\ rqPc' = "filtered"
    /\ UNCHANGED <<baseVars, execVars, afterRequestVars, requestData, newRequest>>

RequestInit ==
    /\ requestData \in RequestData
    /\ newRequest = <<>> /\ rqPc = "data" /\ matchSQL = <<>>
    /\ NoBatch
    /\ NoFetch
    /\ NoExec /\ NoParse /\ NoRecords /\ NoLoader /\ NoLater

RequestNext ==
    \/ DSRequest_new
    \/ SQLDataSource_executeFetch_simple

RequestSpec == RequestInit /\ [][RequestNext]_vars

----------------------------------------------------------------------------
\* Properties of the construction of a DSRequest (RequestSpec).

\* The request names no textMatchStyle.
NoStyleGiven ==
    ~requestData.operationConfig.present
        \/ requestData.operationConfig.textMatchStyle = "undefined"

\* The filter of the substring style: the value between two wildcards.
SubstringFilter ==
    [sql |-> "upper('' || ??) like upper(?) escape ?", param |-> <<"%", "v", "%">>]

\* C25: for every DS request that does not specify a textMatchStyle, the
\* effective textMatchStyle is exact when the operation type is update or
\* remove, and substring (the style of the filter its criteria become) when
\* it is fetch, whether the operation is identified by an operation string
\* or by an operationConfig object.
C25_DefaultTextMatchStyle ==
    (rqPc # "data" /\ NoStyleGiven) =>
        /\ newRequest.operationType \in {OPERATION_TYPE_UPDATE, OPERATION_TYPE_REMOVE} =>
              newRequest.textMatchStyle = TEXT_MATCH_STYLE_EXACT
        /\ (newRequest.operationType = OPERATION_TYPE_FETCH /\ rqPc = "filtered") =>
              matchSQL = SubstringFilter

\* A fetch identified by an operationConfig object without textMatchStyle
\* has had its criteria value made into a filter.
C25_Witness ==
    /\ rqPc = "filtered" /\ NoStyleGiven
    /\ requestData.operationConfig.present
    /\ newRequest.textMatchStyle = "undefined"

\* Texts a column or a criteria value can hold: two that differ in case
\* only, and a third.
Texts == {"a", "A", "b"}

\* SQL upper().
Upper(t) == CASE t = "a" -> "A" [] t = "b" -> "B" [] OTHER -> t

\* What the back end makes of an equality filter for a row whose column
\* holds the text column, with the text value bound to the parameter.
SqlMatches(filter, column, value) ==
    CASE filter.sql = "?? = ?" -> column = value
      [] filter.sql = "upper('' || ??) = upper('' || ?)" -> Upper(column) = Upper(value)

\* C40: for a simple-criteria fetch the filter of textMatchStyle exact
\* selects the rows whose column equals the value regardless of case, and
\* the filter of textMatchStyle exactCase the rows whose column equals the
\* value character by character.
C40_ExactMatchStyles ==
    rqPc = "filtered" =>
        \A column \in Texts, value \in Texts :
            /\ newRequest.textMatchStyle = TEXT_MATCH_STYLE_EXACT =>
                  (SqlMatches(matchSQL, column, value) <=> Upper(column) = Upper(value))
            /\ newRequest.textMatchStyle = TEXT_MATCH_STYLE_EXACT_CASE =>
                  (SqlMatches(matchSQL, column, value) <=> column = value)

----------------------------------------------------------------------------
\* The IDA front-end (IDAProcessor.processRequest): the operations list of
\* the transaction envelope is made into DS and RPC requests, which
\* RPCManager.execute then takes through the pipeline above.
\*
\* An element of the list is a JSON value: null, a number, a string, an
\* array or an object; of an object, the properties the front-end and the
\* request constructors read.

ISC_NULL == "__ISC_NULL__"
ISC_EMPTY_STRING == "__ISC_EMPTY_STRING__"

Value(type, str) ==
    [type |-> type, str |-> str, appID |-> FALSE, operation |-> <<>>,
     operationConfig |-> NoOperationConfig, className |-> FALSE,
     methodName |-> "undefined"]

Object(appID, operation, operationConfig, className, methodName) ==
    [type |-> "object", str |-> "", appID |-> appID, operation |-> operation,
     operationConfig |-> operationConfig, className |-> className,
     methodName |-> methodName]

JsonNull == Value("null", "")
EmptyString == Value("string", "")

\* An operationConfig object that names the data source only.
ConfigWithoutType ==
    [present |-> TRUE, dataSource |-> <<"DS">>, operationType |-> <<>>,
     textMatchStyle |-> "undefined"]

Elements ==
    {JsonNull, Value("number", ""), Value("string", "x"), Value("string", ISC_NULL),
     Value("string", ISC_EMPTY_STRING), Value("array", ""),
     Object(TRUE, <<"DS", "_", "fetch">>, NoOperationConfig, FALSE, "undefined"),
     Object(TRUE, <<"DS">>, NoOperationConfig, FALSE, "undefined"),
     Object(TRUE, <<"DS", "_", "fetch">>, ConfigWithoutType, FALSE, "undefined"),
     Object(TRUE, <<>>, NoOperationConfig, FALSE, "undefined"),
     Object(FALSE, <<"DS", "_", "fetch">>, NoOperationConfig, FALSE, "undefined"),
     Object(FALSE, <<>>, NoOperationConfig, TRUE, "known"),
     Object(FALSE, <<>>, NoOperationConfig, TRUE, "unknown")}

Envelopes == SeqsUpTo(Elements, MaxOps)

\* typeof: null and arrays are objects.
TypeOf(e) == IF e.type \in {"null", "array", "object"} THEN "object" ELSE e.type

\* `this.rest` in IDAProcessor: the class has no such property.
IDAProcessor_rest == FALSE

\* Reading a property of null throws a TypeError.
PropertyReadThrows(e) == e.type = "null"

\* The condition of _finishParsing's loop under which the element becomes a
\* DSRequest: typeof operation === "object" && operation[APP_ID] &&
\* operation[OPERATION] || this.rest.
IsDSOperation(e) ==
    (TypeOf(e) = "object" /\ e.appID /\ e.operation # <<>>) \/ IDAProcessor_rest

\* A request that is no DSRequest has none of its fields.
NoDSRequest == [dataSourceName |-> <<>>, operationType |-> <<>>, textMatchStyle |-> "undefined"]

\* The data an RPCRequest is made with: null and "" for the two sentinel
\* strings, the element itself otherwise.
Decode(e) ==
    IF e = Value("string", ISC_NULL) THEN JsonNull
    ELSE IF e = Value("string", ISC_EMPTY_STRING) THEN EmptyString
    ELSE e

\* The request _finishParsing makes of an element that can be read.
Classify(e) ==
    IF IsDSOperation(e)
    THEN [cls |-> "DS", data |-> e,
          request |-> DSRequest_constructor([operation |-> e.operation,
                                             operationConfig |-> e.operationConfig])]
    ELSE [cls |-> "RPC", data |-> Decode(e), request |-> NoDSRequest]

\* RPCRequest.serverObjectID / methodName: read off data when it is an
\* object, null otherwise.
ServerObjectID(d) == d.type \in {"array", "object"} /\ d.className

\* What the pipeline sees of a request.
KindOf(o) ==
    IF o.cls = "DS"
    THEN IF o.request.dataSourceName = <<>> THEN "dsNoName"
         ELSE IF o.request.operationType = <<>> THEN "dsNoType"
         ELSE "ds"
    ELSE IF ~ServerObjectID(o.data) THEN "rpcPlain"
         ELSE IF o.data.methodName = "unknown" THEN "rpcNoMethod"
         ELSE "rpcObj"

\* Elements of the list before the first one whose properties cannot be read.
Readable(list) ==
    IF \E i \in 1..Len(list) : PropertyReadThrows(list[i])
    THEN SubSeq(list, 1, (CHOOSE i \in 1..Len(list) :
                              /\ PropertyReadThrows(list[i])
                              /\ \A j \in 1..(i - 1) : ~PropertyReadThrows(list[j])) - 1)
    ELSE list

\* xml2js.parseString of what is left in `transaction` after JSON.parse
\* succeeded (the parsed object, not text): it reports an error.
XmlParseFails(list) == TRUE

\* IDAProcessor.processRequest: _parseRequest parses the envelope
\* (JSON.parse and _finishParsing inside one try, whose catch tries XML),
\* and its callback either sends the top-level error or starts
\* RPCManager.execute with the operations.
IDAProcessor_processRequest ==
    /\ phase = "parse"
    /\ IF Len(envelope) <= 0
       THEN /\ parseErr' = "noOperations"
            /\ phase' = "done"
            /\ UNCHANGED <<ops, operations>>
       ELSE LET made == [i \in 1..Len(Readable(envelope)) |-> Classify(envelope[i])] IN
            /\ operations' = made
            /\ IF Len(made) < Len(envelope)
               THEN \* TypeError inside the try: the catch parses XML
                    /\ parseErr' = IF XmlParseFails(envelope) THEN "failedToParse" ELSE "none"
                    /\ phase' = "done"
                    /\ UNCHANGED ops
               ELSE /\ ops' = [i \in 1..Len(made) |-> KindOf(made[i])]
                    /\ phase' = "init"
                    /\ UNCHANGED parseErr
    /\ UNCHANGED <<idx, pc, initResult, results, freeResult, responses, initErr, delivered,
                   trace, opDS, serverObject, dup, dsInst, connPool, poolVars, sqlVars,
                   execVars, requestVars, afterParseVars, envelope>>

\* The exception of the first operation's init reaches the try of
\* _parseRequest when the array executor calls init in the same tick as
\* _finishParsing's callback: the catch parses XML, which fails, and the
\* top-level error is sent.
IDAProcessor_parseRequest_catch ==
    /\ phase = "crashed" /\ idx = 1 /\ initResult = <<>> /\ pc = "call"
    /\ parseErr = "none" /\ operations # <<>>
    /\ XmlParseFails(envelope)
    /\ parseErr' = "failedToParse"
    /\ phase' = "done"
    /\ UNCHANGED <<ops, idx, pc, initResult, results, freeResult, responses, initErr,
                   delivered, trace, opDS, serverObject, dup, dsInst, connPool, poolVars,
                   sqlVars, execVars, requestVars, afterParseVars, envelope, operations>>

ParseInit ==
    /\ envelope \in Envelopes
    /\ operations = <<>> /\ parseErr = "none"
    /\ ops = <<>>
    /\ phase = "parse"
    /\ idx = 1
    /\ pc = "call"
    /\ initResult = <<>>
    /\ results = <<>>
    /\ freeResult = <<>>
    /\ responses = <<>>
    /\ initErr = FALSE
    /\ delivered = <<>>
    /\ trace = <<>>
    /\ opDS = [i \in 1..MaxOps |-> 0]
    /\ dsInst = [k \in 1..DSPoolMax |-> [st |-> "none", conn |-> 0]]
    /\ connPool = [c \in 1..ConnPoolMax |-> "none"]
    /\ serverObject = [i \in 1..MaxOps |-> FALSE]
    /\ dup = [i \in 1..MaxOps |-> "none"]
    /\ registry = [n \in PoolNames |-> 0]
    /\ created = [n \in PoolNames |-> 0]
    /\ descriptor = "xml"
    /\ reads = 0
    /\ cl = [c \in Clients |-> NoClient]
    /\ NoFetch
    /\ NoExec /\ NoRequest /\ NoRecords /\ NoLoader /\ NoLater

ParseNext ==
    \/ IDAProcessor_processRequest
    \/ IDAProcessor_parseRequest_catch
    \/ Next

ParseSpec == ParseInit /\ [][ParseNext]_vars

----------------------------------------------------------------------------
\* Properties of the IDA front-end (ParseSpec).

\* The envelope of the two sentinel strings.
Sentinels == <<Value("string", ISC_NULL), Value("string", ISC_EMPTY_STRING)>>

\* The request has come to its end: answered, or stopped by an exception.
Ended == phase \in {"done", "crashed"}

\* RPCRequest.execute without a server object answers with the data of its
\* request: the data of the response for operation i.
ResponseData(r) == operations[r.op].data

\* C26: an envelope whose operations list is ["__ISC_NULL__",
\* "__ISC_EMPTY_STRING__"] produces exactly two RPC responses, in that
\* order, with data null and the empty string respectively, both with
\* status 0.
C26_SentinelResponses ==
    (envelope = Sentinels /\ Ended) =>
        /\ parseErr = "none"
        /\ Len(delivered) = 1 /\ ~delivered[1].err
        /\ LET rs == delivered[1].responses IN
           /\ Len(rs) = 2
           /\ \A i \in 1..2 : rs[i].cls = "RPC" /\ rs[i].status = STATUS_SUCCESS /\ rs[i].op = i
           /\ ResponseData(rs[1]) = JsonNull
           /\ ResponseData(rs[2]) = EmptyString

\* What the classification of one element has to be: a DS operation for a
\* plain object with appID and operation, an RPC operation with null or ""
\* for the sentinel strings, an RPC operation carrying the element for
\* anything else.
Classified(e, o) ==
    IF e.type = "object" /\ e.appID /\ e.operation # <<>>
    THEN o.cls = "DS" /\ o.data = e
    ELSE /\ o.cls = "RPC"
         /\ o.data = IF e.type = "string" /\ e.str = ISC_NULL THEN JsonNull
                     ELSE IF e.type = "string" /\ e.str = ISC_EMPTY_STRING THEN EmptyString
                     ELSE e

\* C27: classification of envelope operations is total: every element of
\* the operations list yields exactly one operation in the same position (a
\* DS operation, an RPC operation with null or "" data, or an RPC operation
\* carrying the element), and parsing never fails because of an element's
\* shape.
C27_ClassificationTotal ==
    (phase # "parse" /\ Len(envelope) >= 1) =>
        /\ Len(operations) = Len(envelope)
        /\ \A i \in 1..Len(envelope) : Classified(envelope[i], operations[i])

----------------------------------------------------------------------------
\* DataSource.toRecords. An object is the function from the names of its own
\* properties to their values; every object also inherits the members of
\* Object.prototype. The argument of toRecords is null, one object or a
\* list of objects: [kind, items], with the object as the only item.

\* Most fields of a descriptor, most records of a list.
MaxFields == 2
MaxRecords == 2

\* Names of descriptor fields; "toString" is also a member of
\* Object.prototype.
Names == {"id", "name", "toString"}
ObjectPrototype == {"toString"}

\* The value of an inherited member (a function).
NativeFunction == -2

\* The objects examined: own properties "id" and "name", each missing, null
\* or 1.
Objects ==
    UNION {[own -> {NULL, 1}] : own \in SUBSET {"id", "name"}}

NullRecords == [kind |-> "null", items |-> <<>>]
OneRecord(o) == [kind |-> "object", items |-> <<o>>]
RecordList(list) == [kind |-> "list", items |-> list]

RecordInputs ==
    {NullRecords} \cup {OneRecord(o) : o \in Objects}
        \cup {RecordList(list) : list \in SeqsUpTo(Objects, MaxRecords)}

Descriptors == SeqsUpTo(Names, MaxFields)

\* `name in o`: an own property of o or a member of its prototype chain.
HasProperty(name, o) == name \in DOMAIN o \/ name \in ObjectPrototype

\* o[name] for a name that is `in` o.
GetProperty(o, name) == IF name \in DOMAIN o THEN o[name] ELSE NativeFunction

\* The record toRecords makes of one object: every field of the descriptor,
\* with the object's value when the name is `in` the object, null otherwise.
ToRecord(names, o) ==
    [name \in {names[i] : i \in 1..Len(names)} |->
        IF HasProperty(name, o) THEN GetProperty(o, name) ELSE NULL]

\* toRecords(records): null for nothing, a record for an object, a list of
\* records for a list.
ToRecords(names, x) ==
    IF x.kind = "null" THEN NullRecords
    ELSE [kind |-> x.kind,
          items |-> [ri \in 1..Len(x.items) |-> ToRecord(names, x.items[ri])]]

DataSource_toRecords ==
    /\ rcPc = "input"
    /\ recordsOut' = ToRecords(fieldNames, recordsIn)
    /\ rcPc' = "once"
    /\ UNCHANGED <<baseVars, execVars, requestVars, parseVars, afterRecordVars, fieldNames, recordsIn, recordsAgain>>

DataSource_toRecords_again ==
    /\ rcPc = "once"
    /\ recordsAgain' = ToRecords(fieldNames, recordsOut)
    /\ rcPc' = "twice"
    /\ UNCHANGED <<baseVars, execVars, requestVars, parseVars, afterRecordVars, fieldNames, recordsIn, recordsOut>>

RecordsInit ==
    /\ fieldNames \in Descriptors
    /\ recordsIn \in RecordInputs
    /\ recordsOut = <<>> /\ recordsAgain = <<>> /\ rcPc = "input"
    /\ NoBatch
    /\ NoFetch
    /\ NoExec /\ NoRequest /\ NoParse /\ NoLoader /\ NoLater

RecordsNext ==
    \/ DataSource_toRecords
    \/ DataSource_toRecords_again

RecordsSpec == RecordsInit /\ [][RecordsNext]_vars

----------------------------------------------------------------------------
\* Properties of toRecords (RecordsSpec).

\* The record has exactly the descriptor's fields, with the value the
\* object has for the field and null for a field the object has no value
\* for.
Projection(record, o) ==
    /\ DOMAIN record = {fieldNames[i] : i \in 1..Len(fieldNames)}
    /\ \A name \in DOMAIN record :
          record[name] = IF name \in DOMAIN o THEN o[name] ELSE NULL

\* C28: DataSource.toRecords is an idempotent projection: for every
\* descriptor and every input x (null, a single object, or a list of
\* objects), toRecords(toRecords(x)) equals toRecords(x), and each produced
\* record has exactly the descriptor's fields with missing values set to
\* null.
C28_ToRecordsIdempotentProjection ==
    /\ rcPc = "twice" => recordsAgain = recordsOut
    /\ rcPc # "input" =>
          /\ recordsOut.kind = recordsIn.kind
          /\ Len(recordsOut.items) = Len(recordsIn.items)
          /\ \A ri \in 1..Len(recordsIn.items) :
                Projection(recordsOut.items[ri], recordsIn.items[ri])

----------------------------------------------------------------------------
\* The dataSourceLoader front-end (ConfigurationLoader.processRequest): the
\* requested ids are acquired one after the other from DataSourcePool, the
\* payload is made of the configurations of the loaded data sources, and
\* the data sources are released one after the other before the payload is
\* sent.
\*
\* An id of the query is [name, padded]: `padded` when blanks surround the
\* name ("a, b" splits into "a" and " b").

\* Most ids in one query.
MaxIds == 2

SYSTEM_SCHEMA == "$systemSchema"

Id(name, padded) == [name |-> name, padded |-> padded]

\* The ids a query is made of; Id("", FALSE) is the empty string between
\* two commas (or the whole of an empty query).
QueryIds ==
    {Id("a", FALSE), Id("b", FALSE), Id("a", TRUE), Id(SYSTEM_SCHEMA, FALSE), Id("", FALSE)}

Queries == {q \in SeqsUpTo(QueryIds, MaxIds) : Len(q) >= 1}

\* String.trim.
Trim(id) == Id(id.name, FALSE)

\* if (ids[i]): the empty string is falsy.
NonEmpty(id) == id.name # "" \/ id.padded

Includes(list, x) == \E i \in 1..Len(list) : list[i] = x

\* The loop of processRequest over the ids: empty ids and "$systemSchema"
\* are left out, and so is an id that is already in the list.
RECURSIVE RealIds(_)
RealIds(list) ==
    IF list = <<>> THEN <<>>
    ELSE LET front == RealIds(SubSeq(list, 1, Len(list) - 1))
             id == list[Len(list)]
         IN IF NonEmpty(id) /\ id # Id(SYSTEM_SCHEMA, FALSE) /\ ~Includes(front, id)
            THEN Append(front, id)
            ELSE front

\* Results of the acquire run: the DataSource of the id, or the error.
LoadedDS(name) == [cls |-> "DataSource", op |-> name]
LoadError(name) == [cls |-> "Error", op |-> name]

\* `x instanceof DataSource`.
InstanceOfDataSource(x) == x.cls = "DataSource"

\* The payload: one isc.DataSource.create(<config>); for every DataSource
\* of the result array.
Configs(result) ==
    LET loaded == SelectSeq(result, InstanceOfDataSource)
    IN [i \in 1..Len(loaded) |-> loaded[i].op]

\* The array executor goes on to item i of the release run: the function
\* calls DataSourcePool.release for a DataSource, and returns without
\* calling back for anything else. After the last item the payload is sent.
ReleaseRun(result, i) ==
    IF i > Len(result) THEN ldPc' = "sent" /\ ldIdx' = i
    ELSE ldPc' = "release" /\ ldIdx' = i

\* processRequest: the ids to load, and the first acquire. With nothing to
\* load both runs end at once and the empty payload is sent.
ConfigurationLoader_processRequest ==
    /\ ldPc = "request"
    /\ realIds' = RealIds(query)
    /\ IF RealIds(query) = <<>>
       THEN /\ configs' = Configs(<<>>)
            /\ ReleaseRun(<<>>, 1)
       ELSE /\ ldPc' = "acquire" /\ ldIdx' = 1
            /\ UNCHANGED configs
    /\ UNCHANGED <<baseVars, execVars, requestVars, parseVars, recordVars, afterLoaderVars,
                   query, loadable, ldResult, loaned>>

\* The callback of DataSourcePool.acquire(id.trim()): cbAcquire(err) or
\* cbAcquire(null, dataSource). After the last id the payload is built and
\* the release run starts.
ConfigurationLoader_cbAcquire ==
    /\ ldPc = "acquire"
    /\ LET name == Trim(realIds[ldIdx]).name
           ok == name \in loadable /\ loaned[name] < DSPoolMax
           r == IF name \in loadable THEN LoadedDS(name) ELSE LoadError(name)
           res == ExecutorRecord(ldResult, r)
       IN /\ name \in loadable => loaned[name] < DSPoolMax
          /\ ldResult' = res
          /\ loaned' = IF ok THEN [loaned EXCEPT ![name] = @ + 1] ELSE loaned
          /\ IF ExecutorDone(FALSE, r, ldIdx, Len(realIds))
             THEN /\ configs' = Configs(res)
                  /\ ReleaseRun(res, 1)
             ELSE /\ ldIdx' = ldIdx + 1
                  /\ UNCHANGED <<ldPc, configs>>
    /\ UNCHANGED <<baseVars, execVars, requestVars, parseVars, recordVars, afterLoaderVars,
                   query, loadable, realIds>>

\* The callback of DataSourcePool.release(dataSource.ID, dataSource,
\* cbRelease): the array executor goes on with the next item.
ConfigurationLoader_cbRelease ==
    /\ ldPc = "release"
    /\ InstanceOfDataSource(ldResult[ldIdx])
    /\ loaned' = [loaned EXCEPT ![ldResult[ldIdx].op] = @ - 1]
    /\ ReleaseRun(ldResult, ldIdx + 1)
    /\ UNCHANGED <<baseVars, execVars, requestVars, parseVars, recordVars, afterLoaderVars,
                   query, loadable, realIds, ldResult, configs>>

DSIds == {"a", "b", SYSTEM_SCHEMA}

LoaderInit ==
    /\ query \in Queries
    /\ loadable \in SUBSET DSIds
    /\ realIds = <<>> /\ ldPc = "request" /\ ldIdx = 0 /\ ldResult = <<>>
    /\ configs = <<>>
    /\ loaned = [name \in DSIds |-> 0]
    /\ NoBatch
    /\ NoFetch
    /\ NoExec /\ NoRequest /\ NoParse /\ NoRecords /\ NoLater

LoaderNext ==
    \/ ConfigurationLoader_processRequest
    \/ ConfigurationLoader_cbAcquire
    \/ ConfigurationLoader_cbRelease

LoaderSpec == LoaderInit /\ [][LoaderNext]_vars

\* Every call the loader makes to DataSourcePool completes, and the event
\* loop runs the callback of a completed call.
LoaderFairSpec == LoaderSpec /\ WF_vars(LoaderNext)

----------------------------------------------------------------------------
\* Properties of the dataSourceLoader front-end (LoaderFairSpec).

\* The distinct requested ids that could be loaded, "$systemSchema" and the
\* empty id left out.
Requested ==
    {query[i] : i \in 1..Len(query)} \ {Id(SYSTEM_SCHEMA, FALSE), Id("", FALSE)}

CouldBeLoaded == {id \in Requested : id.name \in loadable}

\* The response has been sent, with one create statement for each distinct
\* requested id that could be loaded, and nothing is on loan.
LoaderAnswered ==
    /\ ldPc = "sent"
    /\ Len(configs) = Cardinality(CouldBeLoaded)
    /\ \A id \in CouldBeLoaded : Includes(configs, id.name)
    /\ ~Includes(configs, SYSTEM_SCHEMA)
    /\ \A name \in DSIds : loaned[name] = 0

\* C29: a dataSourceLoader request always eventually sends its response,
\* containing one isc.DataSource.create(...) statement for each distinct
\* requested id that could be loaded and none for $systemSchema, and every
\* data source it acquired has been released by then, including when some
\* of the requested ids fail to load.
C29_LoaderEventuallyAnswers == <>LoaderAnswered

----------------------------------------------------------------------------
\* SQLDataSource.matchPatternToSQL: the translation of a user pattern with
\* the wildcards * and ? into a LIKE pattern. A string is the sequence of
\* its characters.

\* Longest pattern.
MaxPattern == 3

Chars == {"*", "?", "\\", "_", "%", "~", "a", "b"}

Patterns == SeqsUpTo(Chars, MaxPattern)

Const_ESCAPE_CHARACTER == "~"

\* String.prototype.substring(start, end): the characters from the smaller
\* of the two indexes (counted from 0) up to the larger one, both cut to
\* the length of the string.
Substring(str, start, end) ==
    LET Cut(n) == IF n > Len(str) THEN Len(str) ELSE n
        from == Cut(IF start < end THEN start ELSE end)
        to == Cut(IF start < end THEN end ELSE start)
    IN  SubSeq(str, from + 1, to)

RECURSIVE MatchPatternLoop(_, _, _, _, _)
\* The loop of matchPatternToSQL from index i on: singleChar is
\* value.substring(i, 1).
MatchPatternLoop(value, escapeChar, i, newValue, foundEscapeCharacter) ==
    IF i >= Len(value) THEN newValue
    ELSE LET singleChar == Substring(value, i, 1) IN
         IF foundEscapeCharacter
         THEN MatchPatternLoop(value, escapeChar, i + 1, newValue \o singleChar, FALSE)
         ELSE IF singleChar = <<"\\">>
         THEN MatchPatternLoop(value, escapeChar, i + 1, newValue, TRUE)
         ELSE IF singleChar \in {<<"*">>}
         THEN MatchPatternLoop(value, escapeChar, i + 1, newValue \o <<"%">>, FALSE)
         ELSE IF singleChar \in {<<"?">>, <<"%">>}
         THEN MatchPatternLoop(value, escapeChar, i + 1, newValue \o <<"_">>, FALSE)
         ELSE IF singleChar = <<escapeChar>>
         THEN MatchPatternLoop(value, escapeChar, i + 1, newValue \o <<escapeChar, escapeChar>>, FALSE)
         ELSE IF singleChar = <<"%">>
         THEN MatchPatternLoop(value, escapeChar, i + 1, newValue \o <<escapeChar, "%">>, FALSE)
         ELSE IF singleChar = <<"_">>
         THEN MatchPatternLoop(value, escapeChar, i + 1, newValue \o <<escapeChar, "_">>, FALSE)
         ELSE MatchPatternLoop(value, escapeChar, i + 1, newValue \o singleChar, FALSE)

\* matchPatternToSQL(value, escapeChar) of a string.
MatchPatternToSQL(value, escapeChar) == MatchPatternLoop(value, escapeChar, 0, <<>>, FALSE)

\* The operator matchesPattern calls matchPatternToSQL with the escape
\* character of Const.
SQLDataSource_matchPatternToSQL ==
    /\ mpPc = "input"
    /\ translated' = MatchPatternToSQL(pattern, Const_ESCAPE_CHARACTER)
    /\ mpPc' = "done"
    /\ UNCHANGED <<baseVars, execVars, requestVars, parseVars, recordVars, loaderVars, jsonVars, pattern>>

PatternInit ==
    /\ pattern \in Patterns
    /\ translated = <<>> /\ mpPc = "input"
    /\ NoBatch
    /\ NoFetch
    /\ NoExec /\ NoRequest /\ NoParse /\ NoRecords /\ NoLoader /\ NoJson

PatternNext == SQLDataSource_matchPatternToSQL

PatternSpec == PatternInit /\ [][PatternNext]_vars

----------------------------------------------------------------------------
\* Properties of the pattern translation (PatternSpec).

RECURSIVE Translation(_, _, _)
\* The LIKE pattern for the characters of p from position i on, escaped
\* telling whether the character before was an unescaped backslash.
Translation(p, i, escaped) ==
    IF i > Len(p) THEN <<>>
    ELSE IF escaped THEN <<p[i]>> \o Translation(p, i + 1, FALSE)
    ELSE IF p[i] = "\\" THEN Translation(p, i + 1, TRUE)
    ELSE IF p[i] = "*" THEN <<"%">> \o Translation(p, i + 1, FALSE)
    ELSE IF p[i] = "?" THEN <<"_">> \o Translation(p, i + 1, FALSE)
    ELSE IF p[i] \in {"_", "%", "~"} THEN <<"~", p[i]>> \o Translation(p, i + 1, FALSE)
    ELSE <<p[i]>> \o Translation(p, i + 1, FALSE)

\* C39: matchPatternToSQL translates the pattern character by character: an
\* unescaped * becomes %, an unescaped ? becomes _, the character after a
\* backslash is taken as it is, _, % and ~ get the escape character ~ in
\* front, and every other character is copied, once and in order.
C39_PatternTranslation ==
    mpPc = "done" => translated = Translation(pattern, 1, FALSE)

----------------------------------------------------------------------------
\* Requests on one JSON data source (JSONDataSource): every request is a
\* batch of one DS operation, borrows an instance from the data source's
\* pool, reads the backing file, changes the array it has read and writes
\* the whole array back. fs.readFile and fs.writeFile are asynchronous:
\* between the call and its callback the callbacks of other requests run.
\* A record is its primary key and one other field.

JsonClients == {1, 2}

JsonKeys == 1..MaxRecords

Rec(pk, val) == [pk |-> pk, val |-> val]

\* The requests: an add of a record with the key, or an update / remove
\* whose criteria hold the key or no key at all. The values of request r
\* hold r in the other field.
JsonRequests ==
    [op : {"add"}, pk : JsonKeys]
        \cup [op : {"update", "remove"}, pk : {Undef} \cup JsonKeys]

\* Index of the first row of data whose primary key deep-equals pk
\* (0: none).
FoundRow(data, pk) ==
    IF \E i \in 1..Len(data) : data[i].pk = pk
    THEN CHOOSE i \in 1..Len(data) : data[i].pk = pk /\ \A j \in 1..(i - 1) : data[j].pk # pk
    ELSE 0

\* data.splice(foundRow, 1)
Splice(data, foundRow) == SubSeq(data, 1, foundRow - 1) \o SubSeq(data, foundRow + 1, Len(data))

\* Requests that have an instance of the data source on loan.
JsonHolders == {q \in JsonClients : jr[q].pc \in {"reading", "writing", "releasing"}}

\* An exception reached the event loop: the uncaughtException handler set
\* by Init logs it and ends the process.
Exited == \E q \in JsonClients : jr[q].pc = "thrown"

\* The callback of DataSourcePool.acquire: the pool lends an instance when
\* fewer than pool.max are on loan. The init phase ends, DSRequest.execute
\* calls startTransaction, which calls back at once, and DataSource.execute
\* dispatches to executeAdd / executeUpdate / executeRemove, which calls
\* _readFile.
JSONDataSource_acquire_cb(r) ==
    /\ ~Exited
    /\ jr[r].pc = "start"
    /\ Cardinality(JsonHolders) < cap
    /\ jr' = [jr EXCEPT ![r].pc = "reading"]
    /\ UNCHANGED <<baseVars, execVars, requestVars, parseVars, recordVars, loaderVars, patternVars, file, cap>>

\* The callback of fs.readFile in _readFile and the callback of _readFile
\* in executeAdd / executeUpdate / executeRemove. A failed read or parse is
\* reported; getPKValue(criteria) is called outside any try and throws in
\* this callback when criteria have no primary key.
JSONDataSource_readFile_cb(r) ==
    /\ ~Exited
    /\ jr[r].pc = "reading"
    /\ \/ jr' = [jr EXCEPT ![r].pc = "releasing", ![r].response = <<STATUS_FAILURE>>]
       \/ IF jr[r].op = "add"
          THEN jr' = [jr EXCEPT ![r].pc = "writing",
                                ![r].data = Append(file, Rec(jr[r].pk, r))]
          ELSE IF MissingPK(jr[r].pk)
          THEN jr' = [jr EXCEPT ![r].pc = "thrown"]
          ELSE LET foundRow == FoundRow(file, jr[r].pk) IN
               IF foundRow = 0
               THEN jr' = [jr EXCEPT ![r].pc = "releasing", ![r].scanned = TRUE,
                                     ![r].response = <<STATUS_FAILURE>>]
               ELSE jr' = [jr EXCEPT ![r].pc = "writing", ![r].scanned = TRUE,
                                     ![r].foundRow = foundRow,
                                     ![r].data = IF jr[r].op = "remove"
                                                 THEN Splice(file, foundRow)
                                                 ELSE [file EXCEPT ![foundRow].val = r]]
    /\ UNCHANGED <<baseVars, execVars, requestVars, parseVars, recordVars, loaderVars, patternVars, file, cap>>

\* The callback of fs.writeFile in _writeFile and the callback of
\* _writeFile: the file holds the array the request wrote, or the write
\* failed. _executeFinish commits or rolls back (both call back at once)
\* and the free phase calls DataSourcePool.release.
JSONDataSource_writeFile_cb(r) ==
    /\ ~Exited
    /\ jr[r].pc = "writing"
    /\ \/ /\ file' = jr[r].data
          /\ jr' = [jr EXCEPT ![r].pc = "releasing", ![r].wrote = TRUE,
                              ![r].response = <<STATUS_SUCCESS>>]
       \/ /\ jr' = [jr EXCEPT ![r].pc = "releasing", ![r].response = <<STATUS_FAILURE>>]
          /\ UNCHANGED file
    /\ UNCHANGED <<baseVars, execVars, requestVars, parseVars, recordVars, loaderVars, patternVars, cap>>

\* DataSourcePool.release completes: the instance is back in the pool and
\* the response is sent.
JSONDataSource_release_cb(r) ==
    /\ ~Exited
    /\ jr[r].pc = "releasing"
    /\ jr' = [jr EXCEPT ![r].pc = "done"]
    /\ UNCHANGED <<baseVars, execVars, requestVars, parseVars, recordVars, loaderVars, patternVars, file, cap>>

JsonInit ==
    /\ file \in {<<>>, <<Rec(1, 0)>>}
    /\ cap \in 1..DSPoolMax
    /\ \E requests \in [JsonClients -> JsonRequests] :
          jr = [r \in JsonClients |->
                   [op |-> requests[r].op, pk |-> requests[r].pk, pc |-> "start",
                    data |-> <<>>, scanned |-> FALSE, foundRow |-> 0,
                    wrote |-> FALSE, response |-> <<>>]]
    /\ NoBatch
    /\ NoFetch
    /\ NoExec /\ NoRequest /\ NoParse /\ NoRecords /\ NoLoader /\ NoPattern

JsonNext ==
    \E r \in JsonClients :
        \/ JSONDataSource_acquire_cb(r)
        \/ JSONDataSource_readFile_cb(r)
        \/ JSONDataSource_writeFile_cb(r)
        \/ JSONDataSource_release_cb(r)

JsonSpec == JsonInit /\ [][JsonNext]_vars

----------------------------------------------------------------------------
\* Properties of the JSON data source (JsonSpec).

\* C34: an update or remove whose criteria have no primary-key value, or
\* whose primary key matched no row of the file, ends with a failure
\* response of its own and has not written the file; the process goes on
\* for the other request.
C34_MissingRowFailsOnly ==
    \A r \in JsonClients :
        ( /\ jr[r].op \in {"update", "remove"}
          /\ jr[r].pc \notin {"start", "reading"}
          /\ MissingPK(jr[r].pk) \/ (jr[r].scanned /\ jr[r].foundRow = 0) ) =>
            /\ jr[r].pc \in {"releasing", "done"}
            /\ jr[r].response = <<STATUS_FAILURE>>
            /\ ~jr[r].wrote
            /\ ~Exited

\* C35: when two requests have added a record each and both have completed
\* with success, the file holds both records.
C35_NoLostAdd ==
    ( \A r \in JsonClients :
          /\ jr[r].op = "add"
          /\ jr[r].pc = "done"
          /\ jr[r].response = <<STATUS_SUCCESS>> ) =>
        \A r \in JsonClients : \E i \in 1..Len(file) : file[i] = Rec(jr[r].pk, r)

----------------------------------------------------------------------------
\* One request under pools of any capacity: the pipeline above with
\* pool.max of the two pools chosen from 1 up, and every call that is
\* answered answered eventually.

LiveInit ==
    /\ ops \in Batches
    /\ phase = "init"
    /\ idx = 1
    /\ pc = "call"
    /\ initResult = <<>>
    /\ results = <<>>
    /\ freeResult = <<>>
    /\ responses = <<>>
    /\ initErr = FALSE
    /\ delivered = <<>>
    /\ trace = <<>>
    /\ opDS = [i \in 1..MaxOps |-> 0]
    /\ \E dsMax \in 1..DSPoolMax :
          dsInst = [k \in 1..dsMax |-> [st |-> "none", conn |-> 0]]
    /\ \E connMax \in 1..ConnPoolMax :
          connPool = [c \in 1..connMax |-> "none"]
    /\ serverObject = [i \in 1..MaxOps |-> FALSE]
    /\ dup = [i \in 1..MaxOps |-> "none"]
    /\ registry = [n \in PoolNames |-> 0]
    /\ created = [n \in PoolNames |-> 0]
    /\ descriptor = "xml"
    /\ reads = 0
    /\ cl = [c \in Clients |-> NoClient]
    /\ NoFetch
    /\ NoMore

\* The event loop runs every callback whose call has been answered.
LiveSpec == LiveInit /\ [][Next]_vars /\ WF_vars(Next)

----------------------------------------------------------------------------
\* Properties of a request under pools of any capacity (LiveSpec).

\* C30: every request eventually completes: for any batch and any pool
\* capacities >= 1, including a batch with several operations on the same
\* data source, the coordinator's callback is eventually invoked, provided
\* every individual back-end call completes. (Requests stopped by an
\* exception, phase "crashed", are the subject of C8 and C26 and are set
\* aside here.)
C30_EveryRequestCompletes == <>(delivered # <<>> \/ phase = "crashed")

====
